---- MODULE Spec2Model ----
(***************************************************************************)
(* Model of the concurrency patterns of course 4 (goroutines and channels) *)
(* of learning-golang: fanOut / fanIn, the WaitGroup demo, the             *)
(* producer/consumer pipeline, the worker pool and the inline fan-out      *)
(* demo of courseFour.  Every goroutine is a process with a program        *)
(* counter; every statement that touches a channel or a WaitGroup is one   *)
(* step.  A send on an unbuffered channel is a rendezvous: one step of     *)
(* the sender and the receiver together.                                   *)
(***************************************************************************)
EXTENDS Integers, Sequences, FiniteSets, Bags, TLC

(* ------------------------------ bounds -------------------------------- *)
\* longest input sequence sent through fanOut / fanIn
MaxLen == 2
\* largest numWorkers passed to fanOut
MaxWorkers == 2
\* largest capacity of the caller's input channel (0 = unbuffered)
MaxInputCap == 1
\* largest count passed to producer (courseFour passes 5, and 3 to
\* generateNumbers)
MaxCount == 5
\* largest capacity of the producer's channel (courseFour: 0, unbuffered)
MaxPipeCap == 2

\* the longest delay, in seconds, of a sender or a caller of fetchWithTimeout
MaxDelay == 4

\* how many methods of a Subject are called
MaxCalls == 4

\* the integers the caller may send on input
InputVals == {-1, 2}

VARIABLES
    prog,        \* which entry point runs: "fan", ...
    panicked,    \* a goroutine panicked and was not recovered: the process is dead
    \* ---- fanOut / fanIn and their caller
    items,       \* the sequence the caller sends on input
    numWorkers,  \* fanOut's numWorkers
    input,       \* the input channel
    senderPc, senderI,      \* the caller's sending goroutine
    mainPc, mainI,          \* the caller of fanOut and fanIn
    workerPc, workerVal,    \* fanOut's goroutines, one per channels[i]
    channels,    \* fanOut's private output channels
    mergePc, mergeVal,      \* fanIn's merge goroutines, one per channel
    finPc,       \* fanIn's closing goroutine
    out,         \* fanIn's merged output channel
    fanWg,       \* fanIn's WaitGroup counter
    got,         \* bag of the values the caller received from out
    doneCalls,   \* how many times each merge goroutine called wg.Done
    closeCalls,  \* how many times close() ran on input / channels[i] / out
    \* ---- courseFour
    cfPc, cfI,   \* the coordinator: where it is in courseFour, its loop index
    \* ---- courseFour section 7: sync.WaitGroup
    wg,          \* the WaitGroup counter
    dlPc,        \* the downloadFile goroutines
    dlDone,      \* how many times each downloadFile called wg.Done
    waitReturns, \* how many times wg.Wait() returned
    \* ---- courseFour sections 2 and 8: producer / consumer on one channel
    count,       \* producer's count (generateNumbers' n)
    producerCh,  \* the channel between them
    producerPc, producerI,  \* the producer goroutine and its loop variable i
    consumerPc,  \* consumer, run by the coordinator
    sends,       \* how many sends on producerCh have completed
    consumed,    \* the values consumer received, in order
    pipeCloses,  \* how many times close(producerCh) ran
    \* ---- courseFour section 6: worker pool
    jobs,        \* the jobs channel
    results,     \* the results channel
    poolPc,      \* the worker goroutines
    poolJob,     \* the job each worker is processing
    collected,   \* the Results the coordinator received, in order
    jobsCloses,  \* how many times close(jobs) ran
    recvCount,   \* how many times each job was received by a worker
    \* ---- courseFour section 9: the inline fan-out / fan-in
    demoInput,   \* input := make(chan int, 4)
    ch12,        \* ch1 and ch2
    demoPc,      \* the two worker goroutines
    demoVal,     \* the val each worker holds
    merged,      \* the values the merge loop received, in order
    demoCloses,  \* how many times close() ran on ch1, ch2
    \* ---- courseFour section 3: bufferedChannelDemo
    bufCh,       \* ch := make(chan int, 3)
    bufPc,       \* the statement bufferedChannelDemo is at, 1 .. 7
    bufGot,      \* the values its three receives returned, in order
    \* ---- courseFour section 4: select over two channels
    selCh,       \* ch1, ch2 := make(chan string)
    selPc,       \* the two sending goroutines
    selSent,     \* how many messages each has delivered
    selGot,      \* what receiveFromMultiple received: <<channel, message>>
    \* ---- courseFour section 5: fetchWithTimeout
    slowChannel, \* slowChannel := make(chan string)
    now,         \* the clock, in seconds
    slowDelay,   \* how long the sender sleeps before it sends
    callDelay,   \* how long after the spawn fetchWithTimeout is called
    slowPc,      \* the sending goroutine
    slowWake,    \* when its Sleep ends
    callAt,      \* when fetchWithTimeout is called
    timerAt,     \* when the channel of time.After becomes ready
    fetchOutcome, \* what fetchWithTimeout printed: "result" or "timeout"
    \* ---- 12-design-patterns.go: Subject (observer pattern)
    observers,   \* Subject.observers
    live,        \* the observers subscribed and not unsubscribed since, in order
    updated,     \* the observers whose Update the last Notify called, in order
    expected,    \* live, as it was at the last Notify
    obsCalls,    \* how many methods of the Subject were called
    \* ---- 12-design-patterns.go: GetDatabaseConnection (singleton)
    instance,    \* the package variable: 0 is nil, else the object's number
    created,     \* the connectionString of every DatabaseConnection allocated
    dbPc,        \* where each caller is in GetDatabaseConnection
    dbArg,       \* its connectionString argument
    dbRet,       \* the object it got back, 0 before it returns
    \* ---- 06-http-server.go: createUserHandler
    users,       \* the map users: ID -> Name
    reqPc,       \* where each request is in createUserHandler
    reqName,     \* the Name in its body
    reqId        \* its user.ID, 0 until assigned

fanVars == <<items, numWorkers, input, senderPc, senderI, mainPc, mainI,
             workerPc, workerVal, channels, mergePc, mergeVal, finPc, out,
             fanWg, got, doneCalls, closeCalls>>

wgVars == <<wg, dlPc, dlDone, waitReturns>>

pipeVars == <<count, producerCh, producerPc, producerI, consumerPc, sends,
              consumed, pipeCloses>>

poolVars == <<jobs, results, poolPc, poolJob, collected, jobsCloses,
              recvCount>>

demoVars == <<demoInput, ch12, demoPc, demoVal, merged, demoCloses>>

bufVars == <<bufCh, bufPc, bufGot>>

selVars == <<selCh, selPc, selSent, selGot>>

timeoutVars == <<slowChannel, now, slowDelay, callDelay, slowPc, slowWake,
                 callAt, timerAt, fetchOutcome>>

obsVars == <<observers, live, updated, expected, obsCalls>>

dbVars == <<instance, created, dbPc, dbArg, dbRet>>

userVars == <<users, reqPc, reqName, reqId>>

\* the files other than the concurrency course
otherVars == <<obsVars, dbVars, userVars>>

\* sections 3, 4 and 5 of courseFour
smallVars == <<bufVars, selVars, timeoutVars>>

\* everything fanOut / fanIn and their caller leave alone
notFan == <<otherVars, cfPc, cfI, wgVars, pipeVars, poolVars, demoVars,
     smallVars>>

\* everything section 7 of courseFour leaves alone
notWg == <<otherVars, fanVars, pipeVars, poolVars, demoVars,
     smallVars>>

\* everything the producer and the consumer leave alone
notPipe == <<cfPc, cfI, otherVars, fanVars, wgVars, poolVars, demoVars,
     smallVars>>

\* everything section 6 of courseFour leaves alone
notPool == <<otherVars, fanVars, wgVars, pipeVars, demoVars,
     smallVars>>

\* everything section 9 of courseFour leaves alone
notDemo == <<otherVars, fanVars, wgVars, pipeVars, poolVars,
     smallVars>>

\* everything bufferedChannelDemo leaves alone
notBuffered == <<cfPc, cfI, otherVars, fanVars, wgVars, pipeVars, poolVars, demoVars,
                 selVars, timeoutVars>>

\* everything section 4 of courseFour leaves alone
notSelect == <<otherVars, fanVars, wgVars, pipeVars, poolVars, demoVars, bufVars,
               timeoutVars>>

\* everything section 5 of courseFour leaves alone
notTimeout == <<cfI, otherVars, fanVars, wgVars, pipeVars, poolVars, demoVars, bufVars,
                selVars>>

vars == <<prog, panicked, otherVars, fanVars, cfPc, cfI, wgVars, pipeVars, poolVars,
          demoVars, smallVars>>

(* ------------------------- channels of Go ----------------------------- *)
\* make(chan T, c)
MakeChan(c) == [buf |-> <<>>, cap |-> c, closed |-> FALSE]

\* a buffered send can complete: room in the buffer of an open channel
CanSend(c) == ~c.closed /\ Len(c.buf) < c.cap

\* a receive can take a buffered value
CanRecv(c) == Len(c.buf) > 0

\* mutant of RecvClosed: closed is reported while values are still buffered
RecvClosedIgnoringBuffer(c) == c.closed

\* a receive reports "closed": only when closed and drained
RecvClosed(c) == c.closed /\ c.buf = <<>>

Send(c, v) == [c EXCEPT !.buf = Append(@, v)]

Recv(c) == [c EXCEPT !.buf = Tail(@)]

Close(c) == [c EXCEPT !.closed = TRUE]

Alive == ~panicked

(* --------------------------- fanOut / fanIn --------------------------- *)
Workers == 0 .. (MaxWorkers - 1)

Spawned == 0 .. (numWorkers - 1)

\* mutant of Square: val + val
SquareAsDouble(v) == v + v

\* val * val
Square(v) == v * v

Seqs(S, n) == UNION {[1 .. k -> S] : k \in 0 .. n}

\* for i := 1; i <= 3; i++ in section 7 of courseFour
NumDownloads == 3

Downloads == 1 .. NumDownloads

\* section 7 of courseFour not running
IdleWg ==
    /\ wg = 0
    /\ dlPc = [i \in Downloads |-> "unborn"]
    /\ dlDone = [i \in Downloads |-> 0]
    /\ waitReturns = 0

\* for w := 1; w <= 3; w++ in section 6 of courseFour
NumPoolWorkers == 3

\* for j := 1; j <= 5; j++
NumJobs == 5

\* for i := 0; i < 5; i++ { result := <-results }
NumCollect == 5

\* make(chan Job, 5)
JobsCap == 5

\* make(chan Result, 5)
ResultsCap == 5

PoolWorkers == 1 .. NumPoolWorkers

\* the zero value of Job
NoJob == [ID |-> 0, Data |-> ""]

\* section 6 of courseFour not running
IdlePool ==
    /\ jobs = MakeChan(JobsCap)
    /\ results = MakeChan(ResultsCap)
    /\ poolPc = [w \in PoolWorkers |-> "unborn"]
    /\ poolJob = [w \in PoolWorkers |-> NoJob]
    /\ collected = <<>>
    /\ jobsCloses = 0
    /\ recvCount = [j \in 1 .. NumJobs |-> 0]

\* for i := 1; i <= 4; i++ { input <- i } in section 9 of courseFour
NumInputs == 4

\* input := make(chan int, 4)
DemoInputCap == 4

\* for i := 0; i < 4; i++ { select ... }
NumMerges == 4

\* receiveFromMultiple: for i := 0; i < 4; i++
NumSelects == 4

\* the goroutines writing to ch1 and to ch2
DemoWorkers == {1, 2}

\* section 9 of courseFour not running
IdleDemo ==
    /\ demoInput = MakeChan(DemoInputCap)
    /\ ch12 = [k \in DemoWorkers |-> MakeChan(0)]
    /\ demoPc = [k \in DemoWorkers |-> "unborn"]
    /\ demoVal = [k \in DemoWorkers |-> 0]
    /\ merged = <<>>
    /\ demoCloses = [k \in DemoWorkers |-> 0]

\* the observers a caller may pass to Subscribe and Unsubscribe
ObserverIds == {1, 2}

\* the goroutines that call GetDatabaseConnection
DbCallers == {1, 2, 3}

\* the requests to /users/create
Requests == {1, 2, 3}

\* no Subject in use
IdleObserver ==
    /\ observers = <<>>
    /\ live = <<>>
    /\ updated = <<>>
    /\ expected = <<>>
    /\ obsCalls = 0

\* no caller of GetDatabaseConnection
IdleSingleton ==
    /\ instance = 0
    /\ created = <<>>
    /\ dbPc = [c \in DbCallers |-> "off"]
    /\ dbArg = [c \in DbCallers |-> ""]
    /\ dbRet = [c \in DbCallers |-> 0]

\* no request to createUserHandler
IdleUsers ==
    /\ users = <<"Alice", "Bob", "Charlie">>
    /\ reqPc = [r \in Requests |-> "off"]
    /\ reqName = [r \in Requests |-> ""]
    /\ reqId = [r \in Requests |-> 0]

IdleOthers == IdleObserver /\ IdleSingleton /\ IdleUsers

SelSenders == {1, 2}

\* bufferedChannelDemo not running
IdleBuffered ==
    /\ bufCh = MakeChan(0)
    /\ bufPc = 0
    /\ bufGot = <<>>

\* section 4 of courseFour not running
IdleSelect ==
    /\ selCh = [k \in SelSenders |-> MakeChan(0)]
    /\ selPc = [k \in SelSenders |-> "unborn"]
    /\ selSent = [k \in SelSenders |-> 0]
    /\ selGot = <<>>

\* section 5 of courseFour not running
IdleTimeout ==
    /\ slowChannel = MakeChan(0)
    /\ now = 0
    /\ slowDelay = 0 /\ callDelay = 0
    /\ slowPc = "unborn"
    /\ slowWake = 0 /\ callAt = 0 /\ timerAt = 0
    /\ fetchOutcome = "none"

\* no producer / consumer running
IdlePipe ==
    /\ count = 0
    /\ producerCh = MakeChan(0)
    /\ producerPc = "unborn"
    /\ producerI = 1
    /\ consumerPc = "off"
    /\ sends = 0
    /\ consumed = <<>>
    /\ pipeCloses = 0

\* fanOut / fanIn not running
IdleFan ==
    /\ items = <<>>
    /\ numWorkers = 0
    /\ input = MakeChan(0)
    /\ senderPc = "off"
    /\ senderI = 1
    /\ mainPc = "off"
    /\ mainI = 0
    /\ workerPc = [w \in Workers |-> "unborn"]
    /\ workerVal = [w \in Workers |-> 0]
    /\ channels = [w \in Workers |-> MakeChan(0)]
    /\ mergePc = [w \in Workers |-> "unborn"]
    /\ mergeVal = [w \in Workers |-> 0]
    /\ finPc = "unborn"
    /\ out = MakeChan(0)
    /\ fanWg = 0
    /\ got = EmptyBag
    /\ doneCalls = [w \in Workers |-> 0]
    /\ closeCalls = [input |-> 0, out |-> 0, ch |-> [w \in Workers |-> 0]]

InitFanOf(workerCounts) ==
    /\ prog = "fan"
    /\ panicked = FALSE
    /\ cfPc = "off" /\ cfI = 0
    /\ IdleWg /\ IdlePipe /\ IdlePool /\ IdleDemo
    /\ IdleBuffered /\ IdleSelect /\ IdleTimeout
    /\ IdleOthers
    /\ items \in Seqs(InputVals, MaxLen)
    /\ numWorkers \in workerCounts
    /\ \E c \in 0 .. MaxInputCap : input = MakeChan(c)
    /\ senderPc = "run"
    /\ senderI = 1
    /\ mainPc = "fanOut"
    /\ mainI = 0
    /\ workerPc = [w \in Workers |-> "unborn"]
    /\ workerVal = [w \in Workers |-> 0]
    /\ channels = [w \in Workers |-> MakeChan(0)]
    /\ mergePc = [w \in Workers |-> "unborn"]
    /\ mergeVal = [w \in Workers |-> 0]
    /\ finPc = "unborn"
    /\ out = MakeChan(0)
    /\ fanWg = 0
    /\ got = EmptyBag
    /\ doneCalls = [w \in Workers |-> 0]
    /\ closeCalls = [input |-> 0, out |-> 0, ch |-> [w \in Workers |-> 0]]

\* a caller with at least one worker
InitFan == InitFanOf(1 .. MaxWorkers)

\* a caller of fanOut(input, 0), and so of fanIn() with no channel
InitFanNoWorker == InitFanOf({0})

(* the caller's sending goroutine: `input <- v` for each item, then close *)
SenderSend ==
    /\ Alive /\ prog = "fan"
    /\ senderPc = "run" /\ senderI <= Len(items)
    /\ CanSend(input)
    /\ input' = Send(input, items[senderI])
    /\ senderI' = senderI + 1
    /\ UNCHANGED <<prog, panicked, items, numWorkers, senderPc, mainPc, mainI,
                   workerPc, workerVal, channels, mergePc, mergeVal, finPc,
                   out, fanWg, got, doneCalls, closeCalls>>
    /\ UNCHANGED notFan

\* unbuffered input: the send completes when worker w receives (range input)
InputHandoff(w) ==
    /\ Alive /\ prog = "fan"
    /\ senderPc = "run" /\ senderI <= Len(items)
    /\ input.cap = 0 /\ ~input.closed
    /\ workerPc[w] = "range"
    /\ workerVal' = [workerVal EXCEPT ![w] = items[senderI]]
    /\ workerPc' = [workerPc EXCEPT ![w] = "send"]
    /\ senderI' = senderI + 1
    /\ UNCHANGED <<prog, panicked, items, numWorkers, input, senderPc, mainPc,
                   mainI, channels, mergePc, mergeVal, finPc, out, fanWg, got,
                   doneCalls, closeCalls>>
    /\ UNCHANGED notFan

SenderClose ==
    /\ Alive /\ prog = "fan"
    /\ senderPc = "run" /\ senderI > Len(items)
    /\ input' = Close(input)
    /\ senderPc' = "done"
    /\ closeCalls' = [closeCalls EXCEPT !.input = @ + 1]
    /\ UNCHANGED <<prog, panicked, items, numWorkers, senderI, mainPc, mainI,
                   workerPc, workerVal, channels, mergePc, mergeVal, finPc,
                   out, fanWg, got, doneCalls>>
    /\ UNCHANGED notFan

(* fanOut: for i := 0; i < numWorkers; i++ { ch := make(chan int); go ... } *)
FanOutSpawn ==
    /\ Alive /\ prog = "fan"
    /\ mainPc = "fanOut" /\ mainI < numWorkers
    /\ channels' = [channels EXCEPT ![mainI] = MakeChan(0)]
    /\ workerPc' = [workerPc EXCEPT ![mainI] = "range"]
    /\ mainI' = mainI + 1
    /\ UNCHANGED <<prog, panicked, items, numWorkers, input, senderPc, senderI,
                   mainPc, workerVal, mergePc, mergeVal, finPc, out, fanWg,
                   got, doneCalls, closeCalls>>
    /\ UNCHANGED notFan

\* return channels; fanIn starts: out := make(chan int); var wg sync.WaitGroup
FanOutReturn ==
    /\ Alive /\ prog = "fan"
    /\ mainPc = "fanOut" /\ mainI = numWorkers
    /\ mainPc' = "add"
    /\ mainI' = 0
    /\ out' = MakeChan(0)
    /\ fanWg' = 0
    /\ UNCHANGED <<prog, panicked, items, numWorkers, input, senderPc, senderI,
                   workerPc, workerVal, channels, mergePc, mergeVal, finPc,
                   got, doneCalls, closeCalls>>
    /\ UNCHANGED notFan

\* the goroutine of fanOut, `for val := range input`: a value is received
WorkerRecv(w) ==
    /\ Alive /\ prog = "fan"
    /\ workerPc[w] = "range"
    /\ CanRecv(input)
    /\ workerVal' = [workerVal EXCEPT ![w] = Head(input.buf)]
    /\ input' = Recv(input)
    /\ workerPc' = [workerPc EXCEPT ![w] = "send"]
    /\ UNCHANGED <<prog, panicked, items, numWorkers, senderPc, senderI, mainPc,
                   mainI, channels, mergePc, mergeVal, finPc, out, fanWg, got,
                   doneCalls, closeCalls>>
    /\ UNCHANGED notFan

\* `for val := range input` ends: input is closed and drained
WorkerRangeEnd(w) ==
    /\ Alive /\ prog = "fan"
    /\ workerPc[w] = "range"
    /\ RecvClosed(input)
    /\ workerPc' = [workerPc EXCEPT ![w] = "close"]
    /\ UNCHANGED <<prog, panicked, items, numWorkers, input, senderPc, senderI,
                   mainPc, mainI, workerVal, channels, mergePc, mergeVal, finPc,
                   out, fanWg, got, doneCalls, closeCalls>>
    /\ UNCHANGED notFan

\* `ch <- val * val`, received by the merge goroutine of that channel
WorkerSend(w) ==
    /\ Alive /\ prog = "fan"
    /\ workerPc[w] = "send"
    /\ IF channels[w].closed
       THEN /\ panicked' = TRUE
            /\ UNCHANGED <<workerPc, mergePc, mergeVal>>
       ELSE /\ mergePc[w] = "range"
            /\ mergeVal' = [mergeVal EXCEPT ![w] = Square(workerVal[w])]
            /\ mergePc' = [mergePc EXCEPT ![w] = "send"]
            /\ workerPc' = [workerPc EXCEPT ![w] = "range"]
            /\ UNCHANGED panicked
    /\ UNCHANGED <<prog, items, numWorkers, input, senderPc, senderI, mainPc,
                   mainI, workerVal, channels, finPc, out, fanWg, got,
                   doneCalls, closeCalls>>
    /\ UNCHANGED notFan

\* mutant of WorkerClose: the goroutine returns without close(ch)
WorkerCloseForgotten(w) ==
    /\ Alive /\ prog = "fan"
    /\ workerPc[w] = "close"
    /\ workerPc' = [workerPc EXCEPT ![w] = "done"]
    /\ UNCHANGED <<prog, panicked, items, numWorkers, input, senderPc, senderI,
                   mainPc, mainI, workerVal, channels, mergePc, mergeVal, finPc,
                   out, fanWg, got, doneCalls, closeCalls>>
    /\ UNCHANGED notFan

\* close(ch)
WorkerClose(w) ==
    /\ Alive /\ prog = "fan"
    /\ workerPc[w] = "close"
    /\ IF channels[w].closed
       THEN /\ panicked' = TRUE
            /\ UNCHANGED <<channels, workerPc>>
       ELSE /\ channels' = [channels EXCEPT ![w] = Close(@)]
            /\ workerPc' = [workerPc EXCEPT ![w] = "done"]
            /\ UNCHANGED panicked
    /\ closeCalls' = [closeCalls EXCEPT !.ch[w] = @ + 1]
    /\ UNCHANGED <<prog, items, numWorkers, input, senderPc, senderI, mainPc,
                   mainI, workerVal, mergePc, mergeVal, finPc, out, fanWg, got,
                   doneCalls>>
    /\ UNCHANGED notFan

\* mutant of FanInAdd: the wg.Add(1) before the go statement is missing
FanInAddForgotten ==
    /\ Alive /\ prog = "fan"
    /\ mainPc = "add" /\ mainI < numWorkers
    /\ mainPc' = "go"
    /\ UNCHANGED <<prog, panicked, items, numWorkers, input, senderPc, senderI,
                   mainI, workerPc, workerVal, channels, mergePc, mergeVal,
                   finPc, out, fanWg, got, doneCalls, closeCalls>>
    /\ UNCHANGED notFan

(* fanIn: for _, ch := range channels { wg.Add(1); go func(c) {...}(ch) } *)
FanInAdd ==
    /\ Alive /\ prog = "fan"
    /\ mainPc = "add" /\ mainI < numWorkers
    /\ fanWg' = fanWg + 1
    /\ mainPc' = "go"
    /\ UNCHANGED <<prog, panicked, items, numWorkers, input, senderPc, senderI,
                   mainI, workerPc, workerVal, channels, mergePc, mergeVal,
                   finPc, out, got, doneCalls, closeCalls>>
    /\ UNCHANGED notFan

FanInGo ==
    /\ Alive /\ prog = "fan"
    /\ mainPc = "go"
    /\ mergePc' = [mergePc EXCEPT ![mainI] = "range"]
    /\ mainI' = mainI + 1
    /\ mainPc' = "add"
    /\ UNCHANGED <<prog, panicked, items, numWorkers, input, senderPc, senderI,
                   workerPc, workerVal, channels, mergeVal, finPc, out, fanWg,
                   got, doneCalls, closeCalls>>
    /\ UNCHANGED notFan

\* mutant of FanInGoCloser: fanIn returns out at once when it has no
\* channel, without the goroutine that closes it
FanInGoCloserUnlessEmpty ==
    /\ Alive /\ prog = "fan"
    /\ mainPc = "add" /\ mainI = numWorkers
    /\ finPc' = IF numWorkers = 0 THEN finPc ELSE "wait"
    /\ mainPc' = "range"
    /\ UNCHANGED <<prog, panicked, items, numWorkers, input, senderPc, senderI,
                   mainI, workerPc, workerVal, channels, mergePc, mergeVal, out,
                   fanWg, got, doneCalls, closeCalls>>
    /\ UNCHANGED notFan

\* go func() { wg.Wait(); close(out) }(); return out: the caller ranges over out
FanInGoCloser ==
    /\ Alive /\ prog = "fan"
    /\ mainPc = "add" /\ mainI = numWorkers
    /\ finPc' = "wait"
    /\ mainPc' = "range"
    /\ UNCHANGED <<prog, panicked, items, numWorkers, input, senderPc, senderI,
                   mainI, workerPc, workerVal, channels, mergePc, mergeVal, out,
                   fanWg, got, doneCalls, closeCalls>>
    /\ UNCHANGED notFan

\* merge goroutine, `for val := range c` ends: c is closed (unbuffered, so drained)
MergeRangeEnd(m) ==
    /\ Alive /\ prog = "fan"
    /\ mergePc[m] = "range"
    /\ RecvClosed(channels[m])
    /\ mergePc' = [mergePc EXCEPT ![m] = "return"]
    /\ UNCHANGED <<prog, panicked, items, numWorkers, input, senderPc, senderI,
                   mainPc, mainI, workerPc, workerVal, channels, mergeVal, finPc,
                   out, fanWg, got, doneCalls, closeCalls>>
    /\ UNCHANGED notFan

\* `out <- val`, received by the caller's `range out`; a send on a closed
\* channel panics, and the panic unwinds through the deferred wg.Done
MergeSend(m) ==
    /\ Alive /\ prog = "fan"
    /\ mergePc[m] = "send"
    /\ IF out.closed
       THEN /\ mergePc' = [mergePc EXCEPT ![m] = "panicking"]
            /\ UNCHANGED got
       ELSE /\ mainPc = "range"
            /\ got' = got (+) SetToBag({mergeVal[m]})
            /\ mergePc' = [mergePc EXCEPT ![m] = "range"]
    /\ UNCHANGED <<prog, panicked, items, numWorkers, input, senderPc, senderI,
                   mainPc, mainI, workerPc, workerVal, channels, mergeVal, finPc,
                   out, fanWg, doneCalls, closeCalls>>
    /\ UNCHANGED notFan

\* the deferred wg.Done(), run when the goroutine's function returns or
\* panics; a negative counter panics; an unrecovered panic ends the process
MergeDone(m) ==
    /\ Alive /\ prog = "fan"
    /\ mergePc[m] \in {"return", "panicking"}
    /\ fanWg' = fanWg - 1
    /\ doneCalls' = [doneCalls EXCEPT ![m] = @ + 1]
    /\ mergePc' = [mergePc EXCEPT ![m] = "done"]
    /\ panicked' = (mergePc[m] = "panicking" \/ fanWg - 1 < 0)
    /\ UNCHANGED <<prog, items, numWorkers, input, senderPc, senderI, mainPc,
                   mainI, workerPc, workerVal, channels, mergeVal, finPc, out,
                   got, closeCalls>>
    /\ UNCHANGED notFan

\* mutant of CloserWait: close(out) without waiting for the merge goroutines
CloserWaitSkipped ==
    /\ Alive /\ prog = "fan"
    /\ finPc = "wait"
    /\ finPc' = "close"
    /\ UNCHANGED <<prog, panicked, items, numWorkers, input, senderPc, senderI,
                   mainPc, mainI, workerPc, workerVal, channels, mergePc,
                   mergeVal, out, fanWg, got, doneCalls, closeCalls>>
    /\ UNCHANGED notFan

\* wg.Wait() returns when the counter is zero
CloserWait ==
    /\ Alive /\ prog = "fan"
    /\ finPc = "wait"
    /\ fanWg = 0
    /\ finPc' = "close"
    /\ UNCHANGED <<prog, panicked, items, numWorkers, input, senderPc, senderI,
                   mainPc, mainI, workerPc, workerVal, channels, mergePc,
                   mergeVal, out, fanWg, got, doneCalls, closeCalls>>
    /\ UNCHANGED notFan

\* close(out)
CloserClose ==
    /\ Alive /\ prog = "fan"
    /\ finPc = "close"
    /\ out' = Close(out)
    /\ panicked' = out.closed
    /\ finPc' = "done"
    /\ closeCalls' = [closeCalls EXCEPT !.out = @ + 1]
    /\ UNCHANGED <<prog, items, numWorkers, input, senderPc, senderI, mainPc,
                   mainI, workerPc, workerVal, channels, mergePc, mergeVal,
                   fanWg, got, doneCalls>>
    /\ UNCHANGED notFan

\* the caller's `for v := range out` ends: out is closed
MainRangeEnd ==
    /\ Alive /\ prog = "fan"
    /\ mainPc = "range"
    /\ RecvClosed(out)
    /\ mainPc' = "done"
    /\ UNCHANGED <<prog, panicked, items, numWorkers, input, senderPc, senderI,
                   mainI, workerPc, workerVal, channels, mergePc, mergeVal,
                   finPc, out, fanWg, got, doneCalls, closeCalls>>
    /\ UNCHANGED notFan

NextFan ==
    \/ SenderSend
    \/ \E w \in Workers : InputHandoff(w)
    \/ SenderClose
    \/ FanOutSpawn
    \/ FanOutReturn
    \/ \E w \in Workers : WorkerRecv(w)
    \/ \E w \in Workers : WorkerRangeEnd(w)
    \/ \E w \in Workers : WorkerSend(w)
    \/ \E w \in Workers : WorkerClose(w)
    \/ FanInAdd
    \/ FanInGo
    \/ FanInGoCloser
    \/ \E m \in Workers : MergeRangeEnd(m)
    \/ \E m \in Workers : MergeSend(m)
    \/ \E m \in Workers : MergeDone(m)
    \/ CloserWait
    \/ CloserClose
    \/ MainRangeEnd

SpecFan == InitFan /\ [][NextFan]_vars

\* the scheduler runs some goroutine that can run
FairSpecFan == SpecFan /\ WF_vars(NextFan)

\* the same with the callers that ask for no worker
SpecFanAny == (InitFan \/ InitFanNoWorker) /\ [][NextFan]_vars

FairSpecFanAny == SpecFanAny /\ WF_vars(NextFan)

(* ------------------ courseFour section 7: sync.WaitGroup -------------- *)
InitWg ==
    /\ prog = "waitgroup"
    /\ panicked = FALSE
    /\ IdleFan /\ IdlePipe /\ IdlePool /\ IdleDemo
    /\ IdleBuffered /\ IdleSelect /\ IdleTimeout
    /\ IdleOthers
    /\ cfPc = "wg.add" /\ cfI = 1
    /\ IdleWg

\* mutant of WgAdd: the wg.Add(1) before the go statement is missing
WgAddForgotten ==
    /\ Alive /\ prog = "waitgroup"
    /\ cfPc = "wg.add" /\ cfI <= NumDownloads
    /\ cfPc' = "wg.go"
    /\ UNCHANGED <<prog, panicked, cfI, wg, dlPc, dlDone, waitReturns>>
    /\ UNCHANGED notWg

\* wg.Add(1)
WgAdd ==
    /\ Alive /\ prog = "waitgroup"
    /\ cfPc = "wg.add" /\ cfI <= NumDownloads
    /\ wg' = wg + 1
    /\ cfPc' = "wg.go"
    /\ UNCHANGED <<prog, panicked, cfI, dlPc, dlDone, waitReturns>>
    /\ UNCHANGED notWg

\* go downloadFile(i, &wg)
WgGo ==
    /\ Alive /\ prog = "waitgroup"
    /\ cfPc = "wg.go"
    /\ dlPc' = [dlPc EXCEPT ![cfI] = "entry"]
    /\ cfI' = cfI + 1
    /\ cfPc' = "wg.add"
    /\ UNCHANGED <<prog, panicked, wg, dlDone, waitReturns>>
    /\ UNCHANGED notWg

\* wg.Wait() returns when the counter is zero
WgWait ==
    /\ Alive /\ prog = "waitgroup"
    /\ cfPc = "wg.add" /\ cfI > NumDownloads
    /\ wg = 0
    /\ cfPc' = "wg.done"
    /\ waitReturns' = waitReturns + 1
    /\ UNCHANGED <<prog, panicked, cfI, wg, dlPc, dlDone>>
    /\ UNCHANGED notWg

\* downloadFile: defer wg.Done(), then "Downloading file..." and the sleep
DownloadStart(i) ==
    /\ Alive /\ prog = "waitgroup"
    /\ dlPc[i] = "entry"
    /\ dlPc' = [dlPc EXCEPT ![i] = "downloading"]
    /\ UNCHANGED <<prog, panicked, cfPc, cfI, wg, dlDone, waitReturns>>
    /\ UNCHANGED notWg

\* the sleep is over: "File downloaded!", the function returns
DownloadFinish(i) ==
    /\ Alive /\ prog = "waitgroup"
    /\ dlPc[i] = "downloading"
    /\ dlPc' = [dlPc EXCEPT ![i] = "return"]
    /\ UNCHANGED <<prog, panicked, cfPc, cfI, wg, dlDone, waitReturns>>
    /\ UNCHANGED notWg

\* mutant of DownloadDone: wg.Done() is the last statement of downloadFile
\* instead of a deferred call, so a panic skips it
DownloadDoneNotDeferred(i) ==
    /\ Alive /\ prog = "waitgroup"
    /\ dlPc[i] \in {"return", "panicking"}
    /\ wg' = IF dlPc[i] = "return" THEN wg - 1 ELSE wg
    /\ dlDone' = [dlDone EXCEPT ![i] = IF dlPc[i] = "return" THEN @ + 1 ELSE @]
    /\ dlPc' = [dlPc EXCEPT ![i] = "done"]
    /\ panicked' = (dlPc[i] = "panicking" \/ wg - 1 < 0)
    /\ UNCHANGED <<prog, cfPc, cfI, waitReturns>>
    /\ UNCHANGED notWg

\* mutant of DownloadDone: downloadFile returns without calling wg.Done()
DownloadDoneForgotten(i) ==
    /\ Alive /\ prog = "waitgroup"
    /\ dlPc[i] \in {"return", "panicking"}
    /\ dlPc' = [dlPc EXCEPT ![i] = "done"]
    /\ panicked' = (dlPc[i] = "panicking")
    /\ UNCHANGED <<prog, cfPc, cfI, wg, dlDone, waitReturns>>
    /\ UNCHANGED notWg

\* the deferred wg.Done(), run when downloadFile returns or panics
DownloadDone(i) ==
    /\ Alive /\ prog = "waitgroup"
    /\ dlPc[i] \in {"return", "panicking"}
    /\ wg' = wg - 1
    /\ dlDone' = [dlDone EXCEPT ![i] = @ + 1]
    /\ dlPc' = [dlPc EXCEPT ![i] = "done"]
    /\ panicked' = (dlPc[i] = "panicking" \/ wg - 1 < 0)
    /\ UNCHANGED <<prog, cfPc, cfI, waitReturns>>
    /\ UNCHANGED notWg

NextWg ==
    \/ WgAdd
    \/ WgGo
    \/ WgWait
    \/ \E i \in Downloads : DownloadStart(i)
    \/ \E i \in Downloads : DownloadFinish(i)
    \/ \E i \in Downloads : DownloadDone(i)

SpecWg == InitWg /\ [][NextWg]_vars

FairSpecWg == SpecWg /\ WF_vars(NextWg)

\* both uses of a WaitGroup: section 7 of courseFour, and fanIn
InitWaitGroups == InitWg \/ InitFan

NextWaitGroups == NextWg \/ NextFan

SpecWaitGroups == InitWaitGroups /\ [][NextWaitGroups]_vars

\* the body of downloadFile fails (panics) after the defer statement
DownloadFails(i) ==
    /\ Alive /\ prog = "waitgroup"
    /\ dlPc[i] = "downloading"
    /\ dlPc' = [dlPc EXCEPT ![i] = "panicking"]
    /\ UNCHANGED <<prog, panicked, cfPc, cfI, wg, dlDone, waitReturns>>
    /\ UNCHANGED notWg

\* the body of a merge goroutine fails (panics) after the defer statement
MergeFails(m) ==
    /\ Alive /\ prog = "fan"
    /\ mergePc[m] \in {"range", "send"}
    /\ mergePc' = [mergePc EXCEPT ![m] = "panicking"]
    /\ UNCHANGED <<prog, panicked, items, numWorkers, input, senderPc, senderI,
                   mainPc, mainI, workerPc, workerVal, channels, mergeVal, finPc,
                   out, fanWg, got, doneCalls, closeCalls>>
    /\ UNCHANGED notFan

NextFaults ==
    \/ NextWaitGroups
    \/ \E i \in Downloads : DownloadFails(i)
    \/ \E m \in Workers : MergeFails(m)

\* both uses of a WaitGroup, with task bodies that may panic
SpecFaults == InitWaitGroups /\ [][NextFaults]_vars

(* ------ courseFour sections 2 and 8: producer / consumer pipelines ---- *)
(* generateNumbers / processNumbers (section 2) are the same statements   *)
(* as producer / consumer (section 8), prints and sleeps apart.           *)
InitPipe ==
    /\ prog = "pipe"
    /\ panicked = FALSE
    /\ IdleFan /\ IdleWg /\ IdlePool /\ IdleDemo
    /\ IdleBuffered /\ IdleSelect /\ IdleTimeout
    /\ IdleOthers
    /\ cfPc = "off" /\ cfI = 0
    /\ count \in 0 .. MaxCount
    /\ \E c \in 0 .. MaxPipeCap : producerCh = MakeChan(c)
    /\ producerPc = "run"
    /\ producerI = 1
    /\ consumerPc = "range"
    /\ sends = 0
    /\ consumed = <<>>
    /\ pipeCloses = 0

\* mutant of ProducerSend: the loop counts from 0, `for i := 0; i < count`
ProducerSendFromZero ==
    /\ Alive /\ prog = "pipe"
    /\ producerPc = "run" /\ producerI <= count
    /\ IF producerCh.closed
       THEN /\ panicked' = TRUE
            /\ UNCHANGED <<producerCh, producerI, sends, consumed>>
       ELSE /\ IF producerCh.cap = 0
               THEN /\ consumerPc = "range"
                    /\ consumed' = Append(consumed, producerI - 1)
                    /\ UNCHANGED producerCh
               ELSE /\ CanSend(producerCh)
                    /\ producerCh' = Send(producerCh, producerI - 1)
                    /\ UNCHANGED consumed
            /\ producerI' = producerI + 1
            /\ sends' = sends + 1
            /\ UNCHANGED panicked
    /\ UNCHANGED <<prog, count, producerPc, consumerPc, pipeCloses>>
    /\ UNCHANGED notPipe

\* mutant of ProducerSend: the send on an unbuffered channel completes
\* without a receiver, as if ch were make(chan int, 1)
ProducerSendAhead ==
    /\ Alive /\ prog = "pipe"
    /\ producerPc = "run" /\ producerI <= count
    /\ IF producerCh.closed
       THEN /\ panicked' = TRUE
            /\ UNCHANGED <<producerCh, producerI, sends, consumed>>
       ELSE /\ Len(producerCh.buf) < (IF producerCh.cap = 0
                                      THEN 1 ELSE producerCh.cap)
            /\ producerCh' = Send(producerCh, producerI)
            /\ UNCHANGED consumed
            /\ producerI' = producerI + 1
            /\ sends' = sends + 1
            /\ UNCHANGED panicked
    /\ UNCHANGED <<prog, count, producerPc, consumerPc, pipeCloses>>
    /\ UNCHANGED notPipe

\* `ch <- i` for i := 1; i <= count; i++ : an unbuffered send completes when
\* the consumer's range receives it, a buffered one when there is room
ProducerSend ==
    /\ Alive /\ prog = "pipe"
    /\ producerPc = "run" /\ producerI <= count
    /\ IF producerCh.closed
       THEN /\ panicked' = TRUE
            /\ UNCHANGED <<producerCh, producerI, sends, consumed>>
       ELSE /\ IF producerCh.cap = 0
               THEN /\ consumerPc = "range"
                    /\ consumed' = Append(consumed, producerI)
                    /\ UNCHANGED producerCh
               ELSE /\ CanSend(producerCh)
                    /\ producerCh' = Send(producerCh, producerI)
                    /\ UNCHANGED consumed
            /\ producerI' = producerI + 1
            /\ sends' = sends + 1
            /\ UNCHANGED panicked
    /\ UNCHANGED <<prog, count, producerPc, consumerPc, pipeCloses>>
    /\ UNCHANGED notPipe

\* mutant of ProducerClose: the close(ch) after the loop is missing
ProducerCloseForgotten ==
    /\ Alive /\ prog = "pipe"
    /\ producerPc = "run" /\ producerI > count
    /\ producerPc' = "done"
    /\ UNCHANGED <<prog, panicked, count, producerCh, producerI, consumerPc,
                   sends, consumed, pipeCloses>>
    /\ UNCHANGED notPipe

\* close(ch), after the loop
\* mutant of ProducerClose: close(ch) inside the loop, after the first send
ProducerCloseInLoop ==
    /\ Alive /\ prog = "pipe"
    /\ producerPc = "run" /\ producerI > 1
    /\ producerCh' = Close(producerCh)
    /\ panicked' = producerCh.closed
    /\ pipeCloses' = pipeCloses + 1
    /\ producerPc' = IF producerI > count THEN "done" ELSE "run"
    /\ UNCHANGED <<prog, count, producerI, consumerPc, sends, consumed>>
    /\ UNCHANGED notPipe

ProducerClose ==
    /\ Alive /\ prog = "pipe"
    /\ producerPc = "run" /\ producerI > count
    /\ producerCh' = Close(producerCh)
    /\ panicked' = producerCh.closed
    /\ pipeCloses' = pipeCloses + 1
    /\ producerPc' = "done"
    /\ UNCHANGED <<prog, count, producerI, consumerPc, sends, consumed>>
    /\ UNCHANGED notPipe

\* consumer, `for value := range ch`: a buffered value is received
\* mutant of ConsumerRecv: the consumer closes ch once it has the last item
ConsumerRecvAndClose ==
    /\ Alive /\ prog = "pipe"
    /\ consumerPc = "range"
    /\ CanRecv(producerCh)
    /\ consumed' = Append(consumed, Head(producerCh.buf))
    /\ producerCh' = IF Head(producerCh.buf) = count
                     THEN Close(Recv(producerCh)) ELSE Recv(producerCh)
    /\ UNCHANGED <<prog, panicked, count, producerPc, producerI, consumerPc,
                   sends, pipeCloses>>
    /\ UNCHANGED notPipe

ConsumerRecv ==
    /\ Alive /\ prog = "pipe"
    /\ consumerPc = "range"
    /\ CanRecv(producerCh)
    /\ consumed' = Append(consumed, Head(producerCh.buf))
    /\ producerCh' = Recv(producerCh)
    /\ UNCHANGED <<prog, panicked, count, producerPc, producerI, consumerPc,
                   sends, pipeCloses>>
    /\ UNCHANGED notPipe

\* `for value := range ch` ends: ch is closed and drained
ConsumerRangeEnd ==
    /\ Alive /\ prog = "pipe"
    /\ consumerPc = "range"
    /\ RecvClosed(producerCh)
    /\ consumerPc' = "done"
    /\ UNCHANGED <<prog, panicked, count, producerCh, producerPc, producerI,
                   sends, consumed, pipeCloses>>
    /\ UNCHANGED notPipe

NextPipe ==
    \/ ProducerSend
    \/ ProducerClose
    \/ ConsumerRecv
    \/ ConsumerRangeEnd

SpecPipe == InitPipe /\ [][NextPipe]_vars

FairSpecPipe == SpecPipe /\ WF_vars(NextPipe)

(* ------------------ courseFour section 6: worker pool ----------------- *)
InitPool ==
    /\ prog = "pool"
    /\ panicked = FALSE
    /\ IdleFan /\ IdleWg /\ IdlePipe /\ IdleDemo
    /\ IdleBuffered /\ IdleSelect /\ IdleTimeout
    /\ IdleOthers
    /\ cfPc = "pool.go" /\ cfI = 1
    /\ IdlePool

\* Job{ID: j, Data: fmt.Sprintf("Job %d data", j)}
NewJob(j) == [ID |-> j, Data |-> "Job " \o ToString(j) \o " data"]

\* mutant of MakeResult: the Result is built from the zero Job
MakeResultOfNoJob(job) ==
    [Job |-> NoJob, Output |-> "Processed: " \o NoJob.Data]

\* Result{Job: job, Output: fmt.Sprintf("Processed: %s", job.Data)}
MakeResult(job) == [Job |-> job, Output |-> "Processed: " \o job.Data]

\* go worker(w, jobs, results)
PoolGo ==
    /\ Alive /\ prog = "pool"
    /\ cfPc = "pool.go"
    /\ poolPc' = [poolPc EXCEPT ![cfI] = "range"]
    /\ IF cfI < NumPoolWorkers
       THEN cfI' = cfI + 1 /\ UNCHANGED cfPc
       ELSE cfI' = 1 /\ cfPc' = "pool.submit"
    /\ UNCHANGED <<prog, panicked, jobs, results, poolJob, collected,
                   jobsCloses>>
    /\ UNCHANGED recvCount
    /\ UNCHANGED notPool

\* jobs <- Job{...}
PoolSubmit ==
    /\ Alive /\ prog = "pool"
    /\ cfPc = "pool.submit"
    /\ IF jobs.closed
       THEN /\ panicked' = TRUE
            /\ UNCHANGED <<jobs, cfPc, cfI>>
       ELSE /\ CanSend(jobs)
            /\ jobs' = Send(jobs, NewJob(cfI))
            /\ IF cfI < NumJobs
               THEN cfI' = cfI + 1 /\ UNCHANGED cfPc
               ELSE cfI' = 0 /\ cfPc' = "pool.close"
            /\ UNCHANGED panicked
    /\ UNCHANGED <<prog, results, poolPc, poolJob, collected, jobsCloses>>
    /\ UNCHANGED recvCount
    /\ UNCHANGED notPool

\* mutant of PoolClose: close(jobs) left out
PoolCloseForgotten ==
    /\ Alive /\ prog = "pool"
    /\ cfPc = "pool.close"
    /\ cfPc' = "pool.collect"
    /\ UNCHANGED <<prog, panicked, cfI, jobs, results, poolPc, poolJob,
                   collected, jobsCloses, recvCount>>
    /\ UNCHANGED notPool

\* close(jobs)
PoolClose ==
    /\ Alive /\ prog = "pool"
    /\ cfPc = "pool.close"
    /\ jobs' = Close(jobs)
    /\ panicked' = jobs.closed
    /\ jobsCloses' = jobsCloses + 1
    /\ cfPc' = "pool.collect"
    /\ UNCHANGED <<prog, cfI, results, poolPc, poolJob, collected>>
    /\ UNCHANGED recvCount
    /\ UNCHANGED notPool

\* result := <-results
PoolCollect ==
    /\ Alive /\ prog = "pool"
    /\ cfPc = "pool.collect"
    /\ CanRecv(results)
    /\ collected' = Append(collected, Head(results.buf))
    /\ results' = Recv(results)
    /\ IF cfI + 1 < NumCollect
       THEN cfI' = cfI + 1 /\ UNCHANGED cfPc
       ELSE cfI' = 0 /\ cfPc' = "pool.done"
    /\ UNCHANGED <<prog, panicked, jobs, poolPc, poolJob, jobsCloses>>
    /\ UNCHANGED recvCount
    /\ UNCHANGED notPool

\* mutant of PoolWorkerRecv: the loop body receives again, `job := <-jobs`
\* inside `for range jobs`, so the job the range took is dropped
PoolWorkerRecvSkipping(w) ==
    /\ Alive /\ prog = "pool"
    /\ poolPc[w] = "range"
    /\ CanRecv(jobs)
    /\ LET skip == Len(jobs.buf) >= 2
           job == IF skip THEN jobs.buf[2] ELSE Head(jobs.buf)
       IN  /\ poolJob' = [poolJob EXCEPT ![w] = job]
           /\ jobs' = IF skip THEN Recv(Recv(jobs)) ELSE Recv(jobs)
           /\ recvCount' = [recvCount EXCEPT ![job.ID] = @ + 1]
    /\ poolPc' = [poolPc EXCEPT ![w] = "send"]
    /\ UNCHANGED <<prog, panicked, cfPc, cfI, results, collected, jobsCloses>>
    /\ UNCHANGED notPool

\* mutant of PoolWorkerRecv: the worker hands the job to a goroutine of its
\* own, `go func() {...}()`, and ranges on at once
PoolWorkerRecvDetached(w) ==
    /\ Alive /\ prog = "pool"
    /\ poolPc[w] = "range"
    /\ CanRecv(jobs)
    /\ poolJob' = [poolJob EXCEPT ![w] = Head(jobs.buf)]
    /\ jobs' = Recv(jobs)
    /\ recvCount' = [recvCount EXCEPT ![Head(jobs.buf).ID] = @ + 1]
    /\ UNCHANGED <<prog, panicked, cfPc, cfI, results, collected, jobsCloses,
                   poolPc>>
    /\ UNCHANGED notPool

\* worker, `for job := range jobs`: a job is received
PoolWorkerRecv(w) ==
    /\ Alive /\ prog = "pool"
    /\ poolPc[w] = "range"
    /\ CanRecv(jobs)
    /\ poolJob' = [poolJob EXCEPT ![w] = Head(jobs.buf)]
    /\ jobs' = Recv(jobs)
    /\ poolPc' = [poolPc EXCEPT ![w] = "send"]
    /\ UNCHANGED <<prog, panicked, cfPc, cfI, results, collected, jobsCloses>>
    /\ recvCount' = [recvCount EXCEPT ![Head(jobs.buf).ID] = @ + 1]
    /\ UNCHANGED notPool

\* mutant of PoolWorkerRangeEnd: the worker leaves as soon as jobs is empty
\* (a `select` with `default: return`), closed or not
PoolWorkerRangeEndOnEmpty(w) ==
    /\ Alive /\ prog = "pool"
    /\ poolPc[w] = "range"
    /\ jobs.buf = <<>>
    /\ poolPc' = [poolPc EXCEPT ![w] = "done"]
    /\ UNCHANGED <<prog, panicked, cfPc, cfI, jobs, results, poolJob,
                   collected, jobsCloses, recvCount>>
    /\ UNCHANGED notPool

\* `for job := range jobs` ends: jobs is closed and drained
PoolWorkerRangeEnd(w) ==
    /\ Alive /\ prog = "pool"
    /\ poolPc[w] = "range"
    /\ RecvClosed(jobs)
    /\ poolPc' = [poolPc EXCEPT ![w] = "done"]
    /\ UNCHANGED <<prog, panicked, cfPc, cfI, jobs, results, poolJob,
                   collected, jobsCloses>>
    /\ UNCHANGED recvCount
    /\ UNCHANGED notPool

\* results <- Result{...}; the iteration ends and with it its `job`
PoolWorkerSend(w) ==
    /\ Alive /\ prog = "pool"
    /\ poolPc[w] = "send"
    /\ IF results.closed
       THEN /\ panicked' = TRUE
            /\ UNCHANGED <<results, poolPc, poolJob>>
       ELSE /\ CanSend(results)
            /\ results' = Send(results, MakeResult(poolJob[w]))
            /\ poolPc' = [poolPc EXCEPT ![w] = "range"]
            /\ poolJob' = [poolJob EXCEPT ![w] = NoJob]
            /\ UNCHANGED panicked
    /\ UNCHANGED <<prog, cfPc, cfI, jobs, collected, jobsCloses>>
    /\ UNCHANGED recvCount
    /\ UNCHANGED notPool

NextPool ==
    \/ PoolGo
    \/ PoolSubmit
    \/ PoolClose
    \/ PoolCollect
    \/ \E w \in PoolWorkers : PoolWorkerRecv(w)
    \/ \E w \in PoolWorkers : PoolWorkerRangeEnd(w)
    \/ \E w \in PoolWorkers : PoolWorkerSend(w)

SpecPool == InitPool /\ [][NextPool]_vars

FairSpecPool == SpecPool /\ WF_vars(NextPool)

\* the body of worker's loop panics while it processes a job: worker has no
\* deferred recover, and Result (488-491) has no field to carry an error, so
\* the panic leaves the goroutine and ends the process
PoolWorkerFails(w) ==
    /\ Alive /\ prog = "pool"
    /\ poolPc[w] = "send"
    /\ poolPc' = [poolPc EXCEPT ![w] = "failed"]
    /\ panicked' = TRUE
    /\ UNCHANGED <<prog, cfPc, cfI, jobs, results, poolJob, collected,
                   jobsCloses, recvCount>>
    /\ UNCHANGED notPool

NextPoolFaults ==
    \/ NextPool
    \/ \E w \in PoolWorkers : PoolWorkerFails(w)

SpecPoolFaults == InitPool /\ [][NextPoolFaults]_vars

(* ------- courseFour section 9: the inline fan-out / fan-in demo ------- *)
InitDemo ==
    /\ prog = "demo"
    /\ panicked = FALSE
    /\ IdleFan /\ IdleWg /\ IdlePipe /\ IdlePool
    /\ IdleBuffered /\ IdleSelect /\ IdleTimeout
    /\ IdleOthers
    /\ cfPc = "demo.fill" /\ cfI = 1
    /\ IdleDemo

\* input <- i
DemoFill ==
    /\ Alive /\ prog = "demo"
    /\ cfPc = "demo.fill"
    /\ CanSend(demoInput)
    /\ demoInput' = Send(demoInput, cfI)
    /\ IF cfI < NumInputs
       THEN cfI' = cfI + 1 /\ UNCHANGED cfPc
       ELSE cfI' = 0 /\ cfPc' = "demo.close"
    /\ UNCHANGED <<prog, panicked, ch12, demoPc, demoVal, merged, demoCloses>>
    /\ UNCHANGED notDemo

\* close(input); ch1 := make(chan int); ch2 := make(chan int)
DemoCloseInput ==
    /\ Alive /\ prog = "demo"
    /\ cfPc = "demo.close"
    /\ demoInput' = Close(demoInput)
    /\ panicked' = demoInput.closed
    /\ ch12' = [k \in DemoWorkers |-> MakeChan(0)]
    /\ cfPc' = "demo.go"
    /\ cfI' = 1
    /\ UNCHANGED <<prog, demoPc, demoVal, merged, demoCloses>>
    /\ UNCHANGED notDemo

\* go func() { for val := range input { ch1 <- val * val }; close(ch1) }()
\* and the same for ch2
DemoGo ==
    /\ Alive /\ prog = "demo"
    /\ cfPc = "demo.go"
    /\ demoPc' = [demoPc EXCEPT ![cfI] = "range"]
    /\ IF cfI < 2
       THEN cfI' = cfI + 1 /\ UNCHANGED cfPc
       ELSE cfI' = 0 /\ cfPc' = "demo.merge"
    /\ UNCHANGED <<prog, panicked, demoInput, ch12, demoVal, merged,
                   demoCloses>>
    /\ UNCHANGED notDemo

\* `for val := range input`: a value is received
DemoWorkerRecv(k) ==
    /\ Alive /\ prog = "demo"
    /\ demoPc[k] = "range"
    /\ CanRecv(demoInput)
    /\ demoVal' = [demoVal EXCEPT ![k] = Head(demoInput.buf)]
    /\ demoInput' = Recv(demoInput)
    /\ demoPc' = [demoPc EXCEPT ![k] = "send"]
    /\ UNCHANGED <<prog, panicked, cfPc, cfI, ch12, merged, demoCloses>>
    /\ UNCHANGED notDemo

\* `for val := range input` ends: input is closed and drained
DemoWorkerRangeEnd(k) ==
    /\ Alive /\ prog = "demo"
    /\ demoPc[k] = "range"
    /\ RecvClosed(demoInput)
    /\ demoPc' = [demoPc EXCEPT ![k] = "close"]
    /\ UNCHANGED <<prog, panicked, cfPc, cfI, demoInput, ch12, demoVal, merged,
                   demoCloses>>
    /\ UNCHANGED notDemo

\* close(ch1) / close(ch2)
DemoWorkerClose(k) ==
    /\ Alive /\ prog = "demo"
    /\ demoPc[k] = "close"
    /\ ch12' = [ch12 EXCEPT ![k] = Close(@)]
    /\ panicked' = ch12[k].closed
    /\ demoCloses' = [demoCloses EXCEPT ![k] = @ + 1]
    /\ demoPc' = [demoPc EXCEPT ![k] = "done"]
    /\ UNCHANGED <<prog, cfPc, cfI, demoInput, demoVal, merged>>
    /\ UNCHANGED notDemo

\* one iteration of the merge loop: select takes the case `val := <-ch1`
\* (k = 1) or `val := <-ch2` (k = 2).  The case is ready when worker k is
\* at `chk <- val * val` (the send completes), or when chk is closed (the
\* receive yields the zero value at once).
DemoSelect(k) ==
    /\ Alive /\ prog = "demo"
    /\ cfPc = "demo.merge"
    /\ IF ch12[k].closed
       THEN /\ merged' = Append(merged, 0)
            /\ UNCHANGED demoPc
       ELSE /\ demoPc[k] = "send"
            /\ merged' = Append(merged, Square(demoVal[k]))
            /\ demoPc' = [demoPc EXCEPT ![k] = "range"]
    /\ IF cfI + 1 < NumMerges
       THEN cfI' = cfI + 1 /\ UNCHANGED cfPc
       ELSE cfI' = 0 /\ cfPc' = "demo.done"
    /\ UNCHANGED <<prog, panicked, demoInput, ch12, demoVal, demoCloses>>
    /\ UNCHANGED notDemo

NextDemo ==
    \/ DemoFill
    \/ DemoCloseInput
    \/ DemoGo
    \/ \E k \in DemoWorkers : DemoWorkerRecv(k)
    \/ \E k \in DemoWorkers : DemoWorkerRangeEnd(k)
    \/ \E k \in DemoWorkers : DemoWorkerClose(k)
    \/ \E k \in DemoWorkers : DemoSelect(k)

SpecDemo == InitDemo /\ [][NextDemo]_vars

FairSpecDemo == SpecDemo /\ WF_vars(NextDemo)

(* ------------- courseFour section 3: bufferedChannelDemo -------------- *)
\* mutant of BufferedDemoChan: `make(chan int)`, no buffer
BufferedDemoChanUnbuffered == MakeChan(0)

\* ch := make(chan int, 3)
BufferedDemoChan == MakeChan(3)

\* the values of `ch <- 10`, `ch <- 20`, `ch <- 30`
BufferedDemoValues == <<10, 20, 30>>

InitBuffered ==
    /\ prog = "buffered"
    /\ panicked = FALSE
    /\ IdleFan /\ IdleWg /\ IdlePipe /\ IdlePool /\ IdleDemo
    /\ IdleSelect /\ IdleTimeout
    /\ IdleOthers
    /\ cfPc = "off" /\ cfI = 0
    /\ bufCh = BufferedDemoChan
    /\ bufPc = 1
    /\ bufGot = <<>>

\* ch <- 10, ch <- 20, ch <- 30: statements 1 to 3; no other goroutine
\* holds ch, so a send that finds the buffer full never completes
BufSend ==
    /\ Alive /\ prog = "buffered"
    /\ bufPc \in 1 .. 3
    /\ CanSend(bufCh)
    /\ bufCh' = Send(bufCh, BufferedDemoValues[bufPc])
    /\ bufPc' = bufPc + 1
    /\ UNCHANGED <<prog, panicked, bufGot>>
    /\ UNCHANGED notBuffered

\* the three `<-ch` of the Printf calls: statements 4 to 6
BufRecv ==
    /\ Alive /\ prog = "buffered"
    /\ bufPc \in 4 .. 6
    /\ CanRecv(bufCh)
    /\ bufGot' = Append(bufGot, Head(bufCh.buf))
    /\ bufCh' = Recv(bufCh)
    /\ bufPc' = bufPc + 1
    /\ UNCHANGED <<prog, panicked>>
    /\ UNCHANGED notBuffered

NextBuffered ==
    \/ BufSend
    \/ BufRecv

(* ------------- courseFour section 4: select over two channels --------- *)
\* what the two goroutines send on ch1 and on ch2
SelMessages ==
    <<  <<"Message from ch1", "Another from ch1">>,
        <<"Message from ch2", "Another from ch2">>  >>

InitSelect ==
    /\ prog = "select"
    /\ panicked = FALSE
    /\ IdleFan /\ IdleWg /\ IdlePipe /\ IdlePool /\ IdleDemo
    /\ IdleBuffered /\ IdleTimeout
    /\ IdleOthers
    /\ cfPc = "sel.go" /\ cfI = 0
    /\ selCh = [k \in SelSenders |-> MakeChan(0)]
    /\ selPc = [k \in SelSenders |-> "unborn"]
    /\ selSent = [k \in SelSenders |-> 0]
    /\ selGot = <<>>

\* the two `go func() { time.Sleep(...); ch <- ...; ch <- ... }()`, then the
\* call of receiveFromMultiple(ch1, ch2)
SelGo ==
    /\ Alive /\ prog = "select"
    /\ cfPc = "sel.go"
    /\ selPc' = [k \in SelSenders |-> "run"]
    /\ cfPc' = "sel.recv"
    /\ cfI' = 0
    /\ UNCHANGED <<prog, panicked, selSent, selGot>>
    /\ UNCHANGED selCh
    /\ UNCHANGED notSelect

\* mutant of SelRecv: each goroutine sends its second message first
SelRecvSecondFirst(k) ==
    /\ Alive /\ prog = "select"
    /\ cfPc = "sel.recv"
    /\ selPc[k] = "run" /\ ~selCh[k].closed
    /\ selGot' = Append(selGot, <<k, SelMessages[k][2 - selSent[k]]>>)
    /\ selSent' = [selSent EXCEPT ![k] = @ + 1]
    /\ selPc' = [selPc EXCEPT ![k] =
                    IF selSent[k] + 1 = Len(SelMessages[k])
                    THEN "done" ELSE "run"]
    /\ cfI' = cfI + 1
    /\ cfPc' = IF cfI + 1 = NumSelects THEN "sel.done" ELSE "sel.recv"
    /\ UNCHANGED <<prog, panicked>>
    /\ UNCHANGED selCh
    /\ UNCHANGED notSelect

\* one iteration of receiveFromMultiple's select takes `<-ch1` (k = 1) or
\* `<-ch2` (k = 2), together with the sender's send: ch1, ch2 are unbuffered
SelRecv(k) ==
    /\ Alive /\ prog = "select"
    /\ cfPc = "sel.recv"
    /\ selPc[k] = "run" /\ ~selCh[k].closed
    /\ selGot' = Append(selGot, <<k, SelMessages[k][selSent[k] + 1]>>)
    /\ selSent' = [selSent EXCEPT ![k] = @ + 1]
    /\ selPc' = [selPc EXCEPT ![k] =
                    IF selSent[k] + 1 = Len(SelMessages[k])
                    THEN "done" ELSE "run"]
    /\ cfI' = cfI + 1
    /\ cfPc' = IF cfI + 1 = NumSelects THEN "sel.done" ELSE "sel.recv"
    /\ UNCHANGED <<prog, panicked>>
    /\ UNCHANGED selCh
    /\ UNCHANGED notSelect

NextSelect ==
    \/ SelGo
    \/ \E k \in SelSenders : SelRecv(k)

(* ------------- courseFour section 5: fetchWithTimeout ----------------- *)
\* `time.After(2 * time.Second)` of fetchWithTimeout, in seconds
TimeoutSeconds == 2

\* `time.Sleep(3 * time.Second)` of the sender courseFour spawns, in seconds
SlowSeconds == 3

\* The sender courseFour spawns sleeps SlowSeconds and fetchWithTimeout is
\* called at once (slowDelay = SlowSeconds, callDelay = 0); the other
\* delays are other callers of fetchWithTimeout.
InitTimeout ==
    /\ prog = "timeout"
    /\ panicked = FALSE
    /\ IdleFan /\ IdleWg /\ IdlePipe /\ IdlePool /\ IdleDemo
    /\ IdleBuffered /\ IdleSelect
    /\ IdleOthers
    /\ cfPc = "to.go" /\ cfI = 1
    /\ slowChannel = MakeChan(0)
    /\ now = 0
    /\ slowDelay \in (0 .. MaxDelay) \cup {SlowSeconds}
    /\ callDelay \in 0 .. MaxDelay
    /\ slowPc = "unborn"
    /\ slowWake = 0 /\ callAt = 0 /\ timerAt = 0
    /\ fetchOutcome = "none"

\* slowChannel := make(chan string); go func() { time.Sleep(...)
TimeoutGo ==
    /\ Alive /\ prog = "timeout"
    /\ cfPc = "to.go"
    /\ slowPc' = "sleep"
    /\ slowWake' = now + slowDelay
    /\ callAt' = now + callDelay
    /\ cfPc' = "to.call"
    /\ UNCHANGED <<prog, panicked, now, slowDelay, callDelay, timerAt,
                   fetchOutcome>>
    /\ UNCHANGED slowChannel
    /\ UNCHANGED notTimeout

\* the sender's Sleep ends: it is at `slowChannel <- ...`
SlowWake ==
    /\ Alive /\ prog = "timeout"
    /\ slowPc = "sleep"
    /\ now >= slowWake
    /\ slowPc' = "send"
    /\ UNCHANGED <<prog, panicked, cfPc, now, slowDelay, callDelay, slowWake,
                   callAt, timerAt, fetchOutcome>>
    /\ UNCHANGED slowChannel
    /\ UNCHANGED notTimeout

\* fetchWithTimeout(slowChannel) enters its select: time.After starts the timer
FetchEnter ==
    /\ Alive /\ prog = "timeout"
    /\ cfPc = "to.call"
    /\ now >= callAt
    /\ timerAt' = now + TimeoutSeconds
    /\ cfPc' = "to.select"
    /\ UNCHANGED <<prog, panicked, now, slowDelay, callDelay, slowPc,
                   slowWake, callAt, fetchOutcome>>
    /\ UNCHANGED slowChannel
    /\ UNCHANGED notTimeout

\* mutant of FetchReceive: a later read of courseFour drains slowChannel
FetchReceiveLate ==
    /\ Alive /\ prog = "timeout"
    /\ cfPc \in {"to.select", "to.done"}
    /\ slowPc = "send"
    /\ slowPc' = "done"
    /\ fetchOutcome' = IF cfPc = "to.select" THEN "result" ELSE fetchOutcome
    /\ cfPc' = "to.done"
    /\ UNCHANGED <<prog, panicked, now, slowDelay, callDelay, slowWake,
                   callAt, timerAt>>
    /\ UNCHANGED slowChannel
    /\ UNCHANGED notTimeout

\* `case result := <-ch`: the send on the unbuffered slowChannel and this
\* receive happen together; the sender's goroutine then ends
FetchReceive ==
    /\ Alive /\ prog = "timeout"
    /\ cfPc = "to.select"
    /\ slowPc = "send" /\ ~slowChannel.closed
    /\ slowPc' = "done"
    /\ fetchOutcome' = "result"
    /\ cfPc' = "to.done"
    /\ UNCHANGED <<prog, panicked, now, slowDelay, callDelay, slowWake,
                   callAt, timerAt>>
    /\ UNCHANGED slowChannel
    /\ UNCHANGED notTimeout

\* mutant of FetchTimedOut: `default:` in the place of the time.After case
FetchTimedOutAtOnce ==
    /\ Alive /\ prog = "timeout"
    /\ cfPc = "to.select"
    /\ fetchOutcome' = "timeout"
    /\ cfPc' = "to.done"
    /\ UNCHANGED <<prog, panicked, now, slowDelay, callDelay, slowPc,
                   slowWake, callAt, timerAt>>
    /\ UNCHANGED slowChannel
    /\ UNCHANGED notTimeout

\* `case <-time.After(2 * time.Second)`: the timer's channel is ready
FetchTimedOut ==
    /\ Alive /\ prog = "timeout"
    /\ cfPc = "to.select"
    /\ now >= timerAt
    /\ fetchOutcome' = "timeout"
    /\ cfPc' = "to.done"
    /\ UNCHANGED <<prog, panicked, now, slowDelay, callDelay, slowPc,
                   slowWake, callAt, timerAt>>
    /\ UNCHANGED slowChannel
    /\ UNCHANGED notTimeout

\* a goroutine can take a step at the current instant
TimeoutReady ==
    \/ cfPc = "to.go"
    \/ slowPc = "sleep" /\ now >= slowWake
    \/ cfPc = "to.call" /\ now >= callAt
    \/ cfPc = "to.select" /\ slowPc = "send"
    \/ cfPc = "to.select" /\ now >= timerAt

\* a Sleep or a timer is still to end
TimeoutPending ==
    \/ slowPc = "sleep" /\ now < slowWake
    \/ cfPc = "to.call" /\ now < callAt
    \/ cfPc = "to.select" /\ now < timerAt

\* one second passes; goroutines that can run do so before the clock moves
\* (scheduling latency is far below the seconds the timers count)
Tick ==
    /\ Alive /\ prog = "timeout"
    /\ ~TimeoutReady
    /\ TimeoutPending
    /\ now' = now + 1
    /\ UNCHANGED <<prog, panicked, cfPc, slowDelay, callDelay, slowPc,
                   slowWake, callAt, timerAt, fetchOutcome>>
    /\ UNCHANGED slowChannel
    /\ UNCHANGED notTimeout

NextTimeout ==
    \/ TimeoutGo
    \/ SlowWake
    \/ FetchEnter
    \/ FetchReceive
    \/ FetchTimedOut
    \/ Tick

SpecTimeout == InitTimeout /\ [][NextTimeout]_vars

FairSpecTimeout == SpecTimeout /\ WF_vars(NextTimeout)

(* ------------- 12-design-patterns.go: Subject (observer) -------------- *)
\* NewSubject(): observers is make([]Observer, 0)
InitObserver ==
    /\ prog = "observer"
    /\ panicked = FALSE
    /\ cfPc = "off" /\ cfI = 0
    /\ IdleFan /\ IdleWg /\ IdlePipe /\ IdlePool /\ IdleDemo
    /\ IdleBuffered /\ IdleSelect /\ IdleTimeout
    /\ IdleSingleton /\ IdleUsers
    /\ IdleObserver

\* everything the Subject leaves alone
notObserver == <<prog, panicked, cfPc, cfI, fanVars, wgVars, pipeVars, poolVars,
                 demoVars, smallVars, dbVars, userVars>>

\* s.observers = append(s.observers, obs)
Subscribe(obs) ==
    /\ prog = "observer"
    /\ obsCalls < MaxCalls
    /\ observers' = Append(observers, obs)
    /\ live' = Append(live, obs)
    /\ obsCalls' = obsCalls + 1
    /\ UNCHANGED <<updated, expected>>
    /\ UNCHANGED notObserver

\* the body of Unsubscribe is the comment `// Remove observer`: s.observers
\* stays as it is
Unsubscribe(obs) ==
    /\ prog = "observer"
    /\ obsCalls < MaxCalls
    /\ live' = SelectSeq(live, LAMBDA o : o # obs)
    /\ obsCalls' = obsCalls + 1
    /\ UNCHANGED <<observers, updated, expected>>
    /\ UNCHANGED notObserver

\* for _, obs := range s.observers { obs.Update(message) }
Notify ==
    /\ prog = "observer"
    /\ obsCalls < MaxCalls
    /\ updated' = observers
    /\ expected' = live
    /\ obsCalls' = obsCalls + 1
    /\ UNCHANGED <<observers, live>>
    /\ UNCHANGED notObserver

NextObserver ==
    \/ \E obs \in ObserverIds : Subscribe(obs)
    \/ \E obs \in ObserverIds : Unsubscribe(obs)
    \/ Notify

SpecObserver == InitObserver /\ [][NextObserver]_vars

(* ------------- 12-design-patterns.go: GetDatabaseConnection ----------- *)
\* the connection strings the callers pass
ConnStrings == {"postgres://a", "postgres://b"}

\* instance is nil; every caller is a goroutine about to call
\* GetDatabaseConnection(dbArg[c]). The function takes no lock: its reads
\* and writes of instance interleave freely.
InitSingleton ==
    /\ prog = "singleton"
    /\ panicked = FALSE
    /\ cfPc = "off" /\ cfI = 0
    /\ IdleFan /\ IdleWg /\ IdlePipe /\ IdlePool /\ IdleDemo
    /\ IdleBuffered /\ IdleSelect /\ IdleTimeout
    /\ IdleObserver /\ IdleUsers
    /\ instance = 0
    /\ created = <<>>
    /\ dbPc = [c \in DbCallers |-> "check"]
    /\ dbArg \in [DbCallers -> ConnStrings]
    /\ dbRet = [c \in DbCallers |-> 0]

\* everything GetDatabaseConnection leaves alone
notSingleton == <<prog, panicked, cfPc, cfI, fanVars, wgVars, pipeVars,
                  poolVars, demoVars, smallVars, obsVars, userVars>>

\* if instance == nil
DbCheck(c) ==
    /\ prog = "singleton"
    /\ dbPc[c] = "check"
    /\ dbPc' = [dbPc EXCEPT ![c] = IF instance = 0 THEN "create" ELSE "return"]
    /\ UNCHANGED <<instance, created, dbArg, dbRet>>
    /\ UNCHANGED notSingleton

\* instance = &DatabaseConnection{connectionString: connectionString}
DbCreate(c) ==
    /\ prog = "singleton"
    /\ dbPc[c] = "create"
    /\ created' = Append(created, dbArg[c])
    /\ instance' = Len(created) + 1
    /\ dbPc' = [dbPc EXCEPT ![c] = "return"]
    /\ UNCHANGED <<dbArg, dbRet>>
    /\ UNCHANGED notSingleton

\* return instance
DbReturn(c) ==
    /\ prog = "singleton"
    /\ dbPc[c] = "return"
    /\ dbRet' = [dbRet EXCEPT ![c] = instance]
    /\ dbPc' = [dbPc EXCEPT ![c] = "done"]
    /\ UNCHANGED <<instance, created, dbArg>>
    /\ UNCHANGED notSingleton

NextSingleton ==
    \/ \E c \in DbCallers : DbCheck(c)
    \/ \E c \in DbCallers : DbCreate(c)
    \/ \E c \in DbCallers : DbReturn(c)

SpecSingleton == InitSingleton /\ [][NextSingleton]_vars

(* ------------- 06-http-server.go: createUserHandler ------------------- *)
\* the Name of the users the requests create
NewNames == {"Dan", "Eve"}

\* users as declared; net/http runs the handler of every request in a
\* goroutine of its own, and createUserHandler takes no lock
InitUsers ==
    /\ prog = "users"
    /\ panicked = FALSE
    /\ cfPc = "off" /\ cfI = 0
    /\ IdleFan /\ IdleWg /\ IdlePipe /\ IdlePool /\ IdleDemo
    /\ IdleBuffered /\ IdleSelect /\ IdleTimeout
    /\ IdleObserver /\ IdleSingleton
    /\ users = <<"Alice", "Bob", "Charlie">>
    /\ reqPc = [r \in Requests |-> "start"]
    /\ reqName \in [Requests -> NewNames]
    /\ reqId = [r \in Requests |-> 0]

\* everything createUserHandler leaves alone
notUsers == <<prog, panicked, cfPc, cfI, fanVars, wgVars, pipeVars, poolVars,
              demoVars, smallVars, obsVars, dbVars>>

\* the method is not POST, or the body is not JSON: 405 or 400, return
ReqReject(r) ==
    /\ prog = "users"
    /\ reqPc[r] = "start"
    /\ reqPc' = [reqPc EXCEPT ![r] = "rejected"]
    /\ UNCHANGED <<users, reqName, reqId>>
    /\ UNCHANGED notUsers

\* json.NewDecoder(r.Body).Decode(&user) succeeds
ReqDecode(r) ==
    /\ prog = "users"
    /\ reqPc[r] = "start"
    /\ reqPc' = [reqPc EXCEPT ![r] = "assign"]
    /\ UNCHANGED <<users, reqName, reqId>>
    /\ UNCHANGED notUsers

\* user.ID = len(users) + 1
ReqAssignId(r) ==
    /\ prog = "users"
    /\ reqPc[r] = "assign"
    /\ reqId' = [reqId EXCEPT ![r] = Cardinality(DOMAIN users) + 1]
    /\ reqPc' = [reqPc EXCEPT ![r] = "store"]
    /\ UNCHANGED <<users, reqName>>
    /\ UNCHANGED notUsers

\* users[user.ID] = user, then 201 Created
ReqStore(r) ==
    /\ prog = "users"
    /\ reqPc[r] = "store"
    /\ users' = [i \in DOMAIN users \cup {reqId[r]} |->
                    IF i = reqId[r] THEN reqName[r] ELSE users[i]]
    /\ reqPc' = [reqPc EXCEPT ![r] = "created"]
    /\ UNCHANGED <<reqName, reqId>>
    /\ UNCHANGED notUsers

NextUsers ==
    \/ \E r \in Requests : ReqReject(r)
    \/ \E r \in Requests : ReqDecode(r)
    \/ \E r \in Requests : ReqAssignId(r)
    \/ \E r \in Requests : ReqStore(r)

SpecUsers == InitUsers /\ [][NextUsers]_vars

(* ------------------ every pattern of the course ----------------------- *)
InitAll ==
    \/ InitFan
    \/ InitWg
    \/ InitPipe
    \/ InitPool
    \/ InitDemo
    \/ InitBuffered
    \/ InitSelect
    \/ InitTimeout

NextAll ==
    \/ NextFan
    \/ NextWg
    \/ NextPipe
    \/ NextPool
    \/ NextDemo
    \/ NextBuffered
    \/ NextSelect
    \/ NextTimeout

SpecAll == InitAll /\ [][NextAll]_vars

(* ------------------ the sections of courseFour ------------------------ *)
InitCourseFour ==
    \/ InitPipe
    \/ InitBuffered
    \/ InitSelect
    \/ InitTimeout
    \/ InitPool
    \/ InitWg
    \/ InitDemo

NextCourseFour ==
    \/ NextPipe
    \/ NextBuffered
    \/ NextSelect
    \/ NextTimeout
    \/ NextPool
    \/ NextWg
    \/ NextDemo

SpecCourseFour == InitCourseFour /\ [][NextCourseFour]_vars

\* every goroutine that can take a step is scheduled in the end
FairSpecCourseFour == SpecCourseFour /\ WF_vars(NextCourseFour)

(* --------------- courseFour, its sections one after another ----------- *)
\* Section 1 (greet, lines 578-586) has no channel and no wait: the
\* coordinator starts at section 2. A goroutine that a finished section left
\* behind shares no channel with the later sections: it stays as it was.
\* The records of what a finished section received (selGot, collected,
\* recvCount) are for that section alone and are emptied when it is left.

\* section 2: ch := make(chan int); go generateNumbers(3, ch)
InitCoordinator ==
    /\ prog = "pipe"
    /\ panicked = FALSE
    /\ IdleFan /\ IdleWg /\ IdlePool /\ IdleDemo
    /\ IdleBuffered /\ IdleSelect /\ IdleTimeout
    /\ IdleOthers
    /\ cfPc = "off" /\ cfI = 0
    /\ count = 3
    /\ producerCh = MakeChan(0)
    /\ producerPc = "run"
    /\ producerI = 1
    /\ consumerPc = "range"
    /\ sends = 0
    /\ consumed = <<>>
    /\ pipeCloses = 0

\* processNumbers(ch) returned: section 3, bufferedChannelDemo()
ToBuffered ==
    /\ Alive /\ prog = "pipe" /\ count = 3
    /\ consumerPc = "done"
    /\ prog' = "buffered"
    /\ bufCh' = BufferedDemoChan
    /\ bufPc' = 1
    /\ bufGot' = <<>>
    /\ UNCHANGED <<panicked, cfPc, cfI, otherVars, fanVars, wgVars, pipeVars, poolVars,
                   demoVars, selVars, timeoutVars>>

\* bufferedChannelDemo() returned: section 4
ToSelect ==
    /\ Alive /\ prog = "buffered"
    /\ bufPc = 7
    /\ prog' = "select"
    /\ cfPc' = "sel.go"
    /\ cfI' = 0
    /\ UNCHANGED <<panicked, otherVars, fanVars, wgVars, pipeVars, poolVars, demoVars,
                   smallVars>>

\* receiveFromMultiple returned: section 5, the sender sleeps 3 seconds
ToTimeout ==
    /\ Alive /\ prog = "select"
    /\ cfPc = "sel.done"
    /\ prog' = "timeout"
    /\ cfPc' = "to.go"
    /\ cfI' = 1
    /\ slowDelay' = SlowSeconds
    /\ callDelay' = 0
    /\ selGot' = <<>>
    /\ UNCHANGED <<selCh, selPc, selSent>>
    /\ UNCHANGED <<slowChannel, now, slowPc, slowWake, callAt, timerAt,
                   fetchOutcome>>
    /\ UNCHANGED <<panicked, otherVars, fanVars, wgVars, pipeVars, poolVars, demoVars,
                   bufVars>>

\* fetchWithTimeout returned: section 6
ToPool ==
    /\ Alive /\ prog = "timeout"
    /\ cfPc = "to.done"
    /\ prog' = "pool"
    /\ cfPc' = "pool.go"
    /\ cfI' = 1
    /\ UNCHANGED <<panicked, otherVars, fanVars, wgVars, pipeVars, poolVars, demoVars,
                   smallVars>>

\* the 5 results are collected: section 7
ToWaitGroup ==
    /\ Alive /\ prog = "pool"
    /\ cfPc = "pool.done"
    /\ prog' = "waitgroup"
    /\ cfPc' = "wg.add"
    /\ cfI' = 1
    /\ collected' = <<>>
    /\ recvCount' = [j \in 1 .. NumJobs |-> 0]
    /\ UNCHANGED <<jobs, results, poolPc, poolJob, jobsCloses>>
    /\ UNCHANGED <<panicked, otherVars, fanVars, wgVars, pipeVars, demoVars, smallVars>>

\* wg.Wait() returned: section 8, producerCh := make(chan int);
\* go producer(producerCh, 5)
ToProducerConsumer ==
    /\ Alive /\ prog = "waitgroup"
    /\ cfPc = "wg.done"
    /\ prog' = "pipe"
    /\ cfPc' = "off"
    /\ cfI' = 0
    /\ count' = 5
    /\ producerCh' = MakeChan(0)
    /\ producerPc' = "run"
    /\ producerI' = 1
    /\ consumerPc' = "range"
    /\ sends' = 0
    /\ consumed' = <<>>
    /\ pipeCloses' = 0
    /\ UNCHANGED <<panicked, otherVars, fanVars, wgVars, poolVars, demoVars, smallVars>>

\* consumer(producerCh) returned: section 9
ToDemo ==
    /\ Alive /\ prog = "pipe" /\ count = 5
    /\ consumerPc = "done"
    /\ prog' = "demo"
    /\ cfPc' = "demo.fill"
    /\ cfI' = 1
    /\ UNCHANGED <<panicked, otherVars, fanVars, wgVars, pipeVars, poolVars, demoVars,
                   smallVars>>

\* the merge loop is over: "=== END OF COURSE 4: CONCURRENCY ==="
ToEnd ==
    /\ Alive /\ prog = "demo"
    /\ cfPc = "demo.done"
    /\ prog' = "end"
    /\ UNCHANGED <<panicked, cfPc, cfI, otherVars, fanVars, wgVars, pipeVars, poolVars,
                   demoVars, smallVars>>

\* courseFour's channels of sections 2 and 8 have no buffer, so ConsumerRecv
\* (a receive from the buffer) has no part; nor has FetchReceive: the sender
\* of section 5 is ready at second 3, the select is over at second 2.
NextCoordinator ==
    \/ ProducerSend
    \/ ProducerClose
    \/ ConsumerRangeEnd
    \/ ToBuffered
    \/ NextBuffered
    \/ ToSelect
    \/ NextSelect
    \/ ToTimeout
    \/ TimeoutGo
    \/ SlowWake
    \/ FetchEnter
    \/ FetchTimedOut
    \/ Tick
    \/ ToPool
    \/ NextPool
    \/ ToWaitGroup
    \/ NextWg
    \/ ToProducerConsumer
    \/ ToDemo
    \/ NextDemo
    \/ ToEnd

SpecCoordinator == InitCoordinator /\ [][NextCoordinator]_vars

FairSpecCoordinator == SpecCoordinator /\ WF_vars(NextCoordinator)

(* ------------------------ claims: design patterns --------------------- *)
\* C28: Notify calls Update on the observers that were subscribed and not
\* unsubscribed since, in the order of their subscriptions, and on no other.
C28_NotifyReachesSubscribedOnly == updated = expected

\* C29: at most one DatabaseConnection is ever created, and every call of
\* GetDatabaseConnection returns that one.
C29_SingleInstance ==
    /\ Len(created) <= 1
    /\ \A c, d \in DbCallers :
          (dbPc[c] = "done" /\ dbPc[d] = "done") => dbRet[c] = dbRet[d]

(* ------------------------ claims: HTTP server ------------------------- *)
\* C30: the requests that created a user have IDs different from each other
\* and from the IDs present before; users has one entry more per created
\* user and its three first entries are as they were.
C30_CreatedUsersHaveFreshIds ==
    prog = "users" =>
        LET done == {r \in Requests : reqPc[r] = "created"}
        IN  /\ \A r, q \in done : r # q => reqId[r] # reqId[q]
            /\ \A r \in done : reqId[r] \notin 1 .. 3
            /\ Cardinality(DOMAIN users) = 3 + Cardinality(done)
            /\ \A r \in done : users[reqId[r]] = reqName[r]
            /\ users[1] = "Alice" /\ users[2] = "Bob" /\ users[3] = "Charlie"

SelGotFrom(k) == SelectSeq(selGot, LAMBDA m : m[1] = k)

\* C25: receiveFromMultiple ends after 4 receptions, having received the two
\* messages of ch1 and the two of ch2, each channel's first message before
\* its second; both senders have then completed their sends and ended.
C25_SelectReceivesAllFour ==
    /\ [](prog = "select" =>
            /\ Len(selGot) <= 4
            /\ \A n \in 1 .. Len(SelGotFrom(1)) :
                  SelGotFrom(1)[n] =
                     <<1, <<"Message from ch1", "Another from ch1">>[n]>>
            /\ \A n \in 1 .. Len(SelGotFrom(2)) :
                  SelGotFrom(2)[n] =
                     <<2, <<"Message from ch2", "Another from ch2">>[n]>>
            /\ cfPc = "sel.done" =>
                  /\ Len(selGot) = 4
                  /\ Len(SelGotFrom(1)) = 2 /\ Len(SelGotFrom(2)) = 2
                  /\ \A k \in 1 .. 2 : selPc[k] = "done" /\ selSent[k] = 2)
    /\ prog = "select" => <>(cfPc = "sel.done")

C25_Witness ==
    /\ prog = "select" /\ cfPc = "sel.done"
    /\ selGot = << <<2, "Message from ch2">>, <<1, "Message from ch1">>,
                   <<1, "Another from ch1">>, <<2, "Another from ch2">> >>

\* C26: the coordinator of courseFour goes through its sections in their
\* order and reaches the end of the function, whatever the interleaving of
\* the goroutines it spawned; nothing panics on the way.
C26_CoordinatorReachesEnd ==
    /\ <>(prog = "end")
    /\ [](~panicked)
    /\ [][prog' # prog =>
            <<prog, prog'>> \in
               { <<"pipe", "buffered">>, <<"buffered", "select">>,
                 <<"select", "timeout">>, <<"timeout", "pool">>,
                 <<"pool", "waitgroup">>, <<"waitgroup", "pipe">>,
                 <<"pipe", "demo">>, <<"demo", "end">> }]_vars
    /\ [](producerCh.cap = 0)
    /\ []((prog = "timeout" /\ cfPc = "to.select") => slowPc # "send")

C26_Witness ==
    /\ prog = "end" /\ cfPc = "demo.done"
    /\ consumed = <<1, 2, 3, 4, 5>> /\ waitReturns = 1
    /\ fetchOutcome = "timeout" /\ Len(merged) = 4

(* ------------------------ claims: every pattern ----------------------- *)
\* C17: in no execution of any pattern does a send find its channel closed
\* or a close find it closed already (either would panic), and close() runs
\* at most once per channel.
C17_NoSendOnClosedNoDoubleClose ==
    /\ ~panicked
    /\ \A m \in Spawned : mergePc[m] # "panicking"
    /\ closeCalls.input <= 1 /\ closeCalls.out <= 1
    /\ \A w \in Workers : closeCalls.ch[w] <= 1
    /\ pipeCloses <= 1
    /\ jobsCloses <= 1
    /\ \A k \in 1 .. 2 : demoCloses[k] <= 1
    /\ ~results.closed /\ ~bufCh.closed

C17_Witness ==
    /\ prog = "fan" /\ numWorkers >= 2 /\ Len(items) >= 2
    /\ closeCalls.input = 1 /\ closeCalls.out = 1
    /\ \A w \in 0 .. (numWorkers - 1) : closeCalls.ch[w] = 1
    /\ ~panicked

\* C18: a range over jobs or input ends only when the channel is closed and
\* its buffer empty; a receive on a closed channel that still holds values
\* takes the oldest of them; on a closed, drained channel the range ends
\* without blocking.
C18_ClosedSeenOnlyWhenDrained ==
    /\ [][/\ \A w \in 1 .. 3 :
                /\ (poolPc[w] = "range" /\ poolPc'[w] = "done") =>
                       (jobs.closed /\ jobs.buf = <<>>)
                /\ (poolPc[w] = "range" /\ poolPc'[w] = "send") =>
                       /\ jobs.buf # <<>>
                       /\ poolJob'[w] = jobs.buf[1]
                       /\ jobs'.buf = Tail(jobs.buf)
          /\ \A k \in 1 .. 2 :
                /\ (demoPc[k] = "range" /\ demoPc'[k] = "close") =>
                       (demoInput.closed /\ demoInput.buf = <<>>)
                /\ (demoPc[k] = "range" /\ demoPc'[k] = "send") =>
                       /\ demoInput.buf # <<>>
                       /\ demoVal'[k] = demoInput.buf[1]
                       /\ demoInput'.buf = Tail(demoInput.buf)]_vars
    /\ [](\A w \in 1 .. 3 :
            (~panicked /\ poolPc[w] = "range" /\ jobs.closed
               /\ jobs.buf = <<>>) => ENABLED PoolWorkerRangeEnd(w))
    /\ [](\A k \in 1 .. 2 :
            (~panicked /\ demoPc[k] = "range" /\ demoInput.closed
               /\ demoInput.buf = <<>>) => ENABLED DemoWorkerRangeEnd(k))

C18_Witness ==
    /\ prog = "pool" /\ jobs.closed /\ Len(jobs.buf) = 5
    /\ \E w \in 1 .. 3 : poolPc[w] = "range"

\* C19: the step that closes a channel is a step of its sender, taken after
\* its last send (producer, fanOut's caller and workers, the coordinator for
\* jobs and input, the section 9 workers), or, for fanIn's out, of the
\* closing goroutine with the WaitGroup at zero; no receiving task moves.
C19_ClosedBySenderOnly ==
    [][/\ (~producerCh.closed /\ producerCh'.closed) =>
            /\ producerPc = "run" /\ producerPc' = "done"
            /\ sends = count
            /\ consumerPc' = consumerPc /\ consumed' = consumed
       /\ (~input.closed /\ input'.closed) =>
            /\ senderPc = "run" /\ senderPc' = "done"
            /\ senderI > Len(items)
            /\ workerPc' = workerPc
       /\ \A w \in Workers :
            (~channels[w].closed /\ channels'[w].closed) =>
                /\ workerPc[w] = "close" /\ workerPc'[w] = "done"
                /\ mergePc' = mergePc /\ mainPc' = mainPc
       /\ (~out.closed /\ out'.closed) =>
            /\ finPc = "close" /\ finPc' = "done"
            /\ fanWg = 0
            /\ \A m \in Spawned : mergePc[m] \in {"unborn", "done"}
            /\ mainPc' = mainPc
       /\ (~jobs.closed /\ jobs'.closed) =>
            /\ cfPc = "pool.close" /\ cfPc' = "pool.collect"
            /\ poolPc' = poolPc
       /\ (~demoInput.closed /\ demoInput'.closed) =>
            /\ cfPc = "demo.close" /\ cfPc' = "demo.go"
            /\ demoPc' = demoPc
       /\ \A k \in 1 .. 2 :
            (~ch12[k].closed /\ ch12'[k].closed) =>
                /\ demoPc[k] = "close" /\ demoPc'[k] = "done"
                /\ cfPc' = cfPc /\ merged' = merged
       /\ ~results'.closed /\ ~bufCh'.closed]_vars

C19_Witness ==
    /\ prog = "pipe" /\ producerCh.closed /\ count >= 2
    /\ producerCh.buf # <<>> /\ consumerPc = "range"

\* C20: no buffered channel ever holds more values than its capacity; in
\* bufferedChannelDemo none of the three sends and three receives blocks,
\* the channel holds 10, 20, 30 after the sends, and the receives return
\* 10, 20, 30 in this order.
C20_BufferedWithinCapacity ==
    /\ Len(jobs.buf) <= 5 /\ Len(results.buf) <= 5
    /\ Len(demoInput.buf) <= 4
    /\ Len(input.buf) <= input.cap
    /\ Len(producerCh.buf) <= producerCh.cap
    /\ prog = "buffered" =>
          /\ Len(bufCh.buf) <= 3
          /\ bufPc \in 1 .. 3 => (Len(bufCh.buf) = bufPc - 1 /\ ENABLED BufSend)
          /\ bufPc = 4 => bufCh.buf = <<10, 20, 30>>
          /\ bufPc \in 4 .. 6 => ENABLED BufRecv
          /\ bufPc = 7 => (bufGot = <<10, 20, 30>> /\ bufCh.buf = <<>>)

C20_Witness ==
    /\ prog = "buffered" /\ bufPc = 7
    /\ bufGot = <<10, 20, 30>>

(* ------------------------ claims: fetchWithTimeout -------------------- *)
\* C15: fetchWithTimeout always returns, with one of two outcomes: the
\* value when the sender is ready before the 2 seconds are over, the timeout
\* (and nothing received) when the 2 seconds end first; with the sender of
\* courseFour, ready after 3 seconds, it is the timeout.
C15_FetchValueOrTimeout ==
    /\ [](cfPc = "to.done" =>
            /\ fetchOutcome \in {"result", "timeout"}
            /\ (fetchOutcome = "result") = (slowPc = "done")
            /\ slowDelay < callDelay + 2 => fetchOutcome = "result"
            /\ slowDelay > callDelay + 2 => fetchOutcome = "timeout"
            /\ slowDelay = 3 /\ callDelay = 0 => fetchOutcome = "timeout")
    /\ [](cfPc # "to.done" => fetchOutcome = "none")
    /\ <>(cfPc = "to.done")

C15_Witness ==
    /\ prog = "timeout" /\ cfPc = "to.done"
    /\ slowDelay = 3 /\ callDelay = 0
    /\ fetchOutcome = "timeout" /\ now = 2

\* C16: once fetchWithTimeout has reported the timeout, the sender's
\* message is never received: no later step completes the send on
\* slowChannel or changes what was reported.
C16_LateValueNeverDelivered ==
    [][fetchOutcome = "timeout" =>
          /\ slowPc' # "done"
          /\ fetchOutcome' = "timeout"
          /\ cfPc' = "to.done"]_vars

C16_Witness ==
    /\ prog = "timeout" /\ fetchOutcome = "timeout"
    /\ slowDelay = 3 /\ callDelay = 0
    /\ slowPc = "send" /\ now = 3

\* C22: the goroutine of courseFour that sends on slowChannel after 3 seconds
\* eventually completes its send and ends, whatever fetchWithTimeout reported.
C22_TimeoutSenderTerminates ==
    (slowDelay = 3 /\ callDelay = 0) => <>(slowPc = "done")

(* ------------------------ claims: fanOut / fanIn ---------------------- *)
\* the bag of the squares of the items of a sequence
SquaresOf(s) ==
    LET sq == {s[i] * s[i] : i \in DOMAIN s}
    IN  [v \in sq |-> Cardinality({i \in DOMAIN s : s[i] * s[i] = v})]

\* C1: once the caller's range over fanIn(fanOut(input, numWorkers)...) has
\* ended, the bag of received values is the bag of the squares of the items
\* sent on input: nothing lost, nothing duplicated.
C1_MergedIsBagOfSquares ==
    (prog = "fan" /\ mainPc = "done") => got = SquaresOf(items)

C1_Witness ==
    /\ prog = "fan" /\ mainPc = "done" /\ ~panicked
    /\ numWorkers >= 2 /\ Len(items) >= 2
    /\ items[1] # items[2]
    /\ BagCardinality(got) = Len(items)

\* C2: out is closed only once every merge goroutine has called Done and the
\* counter is zero; no merge goroutine is left sending (or panicking on a
\* send) on a closed out.
C2_CloseAfterAllMerges ==
    (prog = "fan" /\ out.closed) =>
        /\ fanWg = 0
        /\ \A m \in Spawned : mergePc[m] = "done"
        /\ ~panicked

C2_Witness ==
    /\ prog = "fan" /\ out.closed /\ numWorkers >= 2 /\ Len(items) >= 2
    /\ \A m \in Spawned : doneCalls[m] = 1

FanAllDone ==
    /\ mainPc = "done"
    /\ \A w \in Spawned :
          /\ workerPc[w] = "done" /\ channels[w].closed
          /\ closeCalls.ch[w] = 1
          /\ mergePc[w] = "done" /\ doneCalls[w] = 1
    /\ out.closed /\ closeCalls.out = 1

\* C3: once input is closed, every fanOut worker closes its channel exactly
\* once, with no send of its own after the close, every merge goroutine
\* calls Done, out is closed exactly once and the caller's range ends.
C3_FanTerminates ==
    /\ (prog = "fan" /\ input.closed) ~> FanAllDone
    /\ [](\A w \in Workers :
            /\ closeCalls.ch[w] <= 1
            /\ (channels[w].closed => workerPc[w] = "done"))
    /\ [](closeCalls.out <= 1)

C3_Witness ==
    /\ prog = "fan" /\ FanAllDone /\ numWorkers >= 2 /\ Len(items) >= 2

\* C27: with numWorkers = 0 fanOut spawns no worker and returns no channel;
\* fanIn of no channel spawns no merge goroutine, its out is closed without
\* a value ever sent on it, and the caller's range over out ends with
\* nothing received.
C27_NoWorkerNoValue ==
    numWorkers = 0 =>
        /\ [](/\ \A w \in Workers :
                    workerPc[w] = "unborn" /\ mergePc[w] = "unborn"
              /\ fanWg = 0
              /\ out.buf = <<>> /\ got = EmptyBag
              /\ mainI = 0)
        /\ <>(mainPc = "done" /\ out.closed /\ closeCalls.out = 1)

C27_Witness ==
    /\ prog = "fan" /\ numWorkers = 0 /\ Len(items) = 2
    /\ mainPc = "done" /\ out.closed /\ got = EmptyBag
    /\ senderPc = "run"

(* -------------------------- claims: WaitGroup ------------------------- *)
\* C7: wg.Wait() of section 7 returns only when all 3 downloadFile tasks
\* have completed, it does return, and it returns once.
C7_WaitJoinsAllDownloads ==
    /\ [](cfPc = "wg.done" => \A i \in Downloads : dlPc[i] = "done")
    /\ <>(cfPc = "wg.done" /\ waitReturns = 1)
    /\ [](waitReturns <= 1)

C7_Witness ==
    /\ prog = "waitgroup" /\ cfPc = "wg.done" /\ waitReturns = 1
    /\ \A i \in Downloads : dlDone[i] = 1

\* tasks that were spawned and have not yet called Done
RunningDownloads == {i \in Downloads : dlPc[i] \notin {"unborn", "done"}}

RunningMerges == {m \in Workers : mergePc[m] \notin {"unborn", "done"}}

\* C8 as stated: at every moment each counter is the number of tasks
\* spawned and not yet finished.
C8_CounterIsRunningTasks ==
    /\ wg >= 0 /\ fanWg >= 0
    /\ wg = Cardinality(RunningDownloads)
    /\ fanWg = Cardinality(RunningMerges)

\* C8 (amended): no counter is ever negative, every task calls Done once,
\* and each counter is the number of tasks spawned and not yet finished,
\* plus one while the coordinator is between wg.Add(1) and the go statement.
C8_CounterIsAddedNotDone ==
    /\ wg >= 0 /\ fanWg >= 0
    /\ wg = Cardinality(RunningDownloads) + (IF cfPc = "wg.go" THEN 1 ELSE 0)
    /\ fanWg = Cardinality(RunningMerges) + (IF mainPc = "go" THEN 1 ELSE 0)
    /\ \A i \in Downloads : dlDone[i] = (IF dlPc[i] = "done" THEN 1 ELSE 0)
    /\ \A m \in Workers : doneCalls[m] = (IF mergePc[m] = "done" THEN 1 ELSE 0)

C8_Witness ==
    /\ prog = "waitgroup" /\ cfPc = "wg.go" /\ cfI = 3
    /\ dlDone[1] = 1 /\ dlPc[2] = "downloading" /\ wg = 2

\* C9: a task that has left its body, by return or by panic, has called
\* Done exactly once; a task still in its body has not called it.
C9_DoneOnEveryExit ==
    /\ \A i \in Downloads : dlDone[i] = (IF dlPc[i] = "done" THEN 1 ELSE 0)
    /\ \A m \in Workers : doneCalls[m] = (IF mergePc[m] = "done" THEN 1 ELSE 0)
    /\ wg = Cardinality(RunningDownloads) + (IF cfPc = "wg.go" THEN 1 ELSE 0)
    /\ fanWg = Cardinality(RunningMerges) + (IF mainPc = "go" THEN 1 ELSE 0)

C9_Witness ==
    /\ prog = "waitgroup" /\ panicked
    /\ dlPc[2] = "done" /\ dlDone[2] = 1
    /\ dlPc[1] = "downloading" /\ wg = 2

(* --------------------- claims: producer / consumer -------------------- *)
\* C5: the consumer observes 1, 2, ..., in the order sent, without gap or
\* repetition, and all of 1 .. count once its range has ended.
C5_ConsumedInOrder ==
    /\ consumed = [k \in 1 .. Len(consumed) |-> k]
    /\ Len(consumed) <= count
    /\ consumerPc = "done" => Len(consumed) = count

C5_Witness ==
    /\ prog = "pipe" /\ consumerPc = "done" /\ count = MaxCount
    /\ consumed = [k \in 1 .. MaxCount |-> k]

\* C6: producer completes exactly count sends and then closes once;
\* consumer receives exactly count items and then returns, also for
\* count = 0.
C6_ProducerConsumerLifecycle ==
    /\ [](sends <= count /\ pipeCloses <= 1 /\ ~panicked)
    /\ [](producerCh.closed => (sends = count /\ pipeCloses = 1))
    /\ [](consumerPc = "done" =>
            (Len(consumed) = count /\ RecvClosed(producerCh)))
    /\ <>(producerPc = "done" /\ consumerPc = "done")

C6_Witness ==
    /\ prog = "pipe" /\ count = 0 /\ consumerPc = "done"
    /\ producerPc = "done" /\ sends = 0 /\ consumed = <<>> /\ pipeCloses = 1

\* C21: on an unbuffered channel the completed sends are as many as the
\* completed receives, nothing is in flight, and the producer is at item
\* i + 1 only when item i has been received.
C21_UnbufferedSendIsHandoff ==
    (prog = "pipe" /\ producerCh.cap = 0) =>
        /\ sends = Len(consumed)
        /\ producerCh.buf = <<>>
        /\ producerPc = "run" => producerI = Len(consumed) + 1

C21_Witness ==
    /\ prog = "pipe" /\ producerCh.cap = 0 /\ count = 3
    /\ sends = 2 /\ Len(consumed) = 2 /\ producerPc = "run"

(* -------------------------- claims: worker pool ----------------------- *)
\* C10: when the coordinator has collected its 5 results, there is exactly
\* one Result for each submitted job 1..5, carrying that job unchanged and
\* the output "Processed: Job <id> data".
C10_OneResultPerJob ==
    (prog = "pool" /\ cfPc = "pool.done") =>
        /\ Len(collected) = 5
        /\ \A j \in 1 .. 5 :
              \E k \in DOMAIN collected :
                 /\ collected[k].Job.ID = j
                 /\ collected[k].Job.Data = "Job " \o ToString(j) \o " data"
                 /\ collected[k].Output =
                        "Processed: Job " \o ToString(j) \o " data"
                 /\ \A l \in DOMAIN collected :
                        collected[l].Job.ID = j => l = k

C10_Witness ==
    /\ prog = "pool" /\ cfPc = "pool.done"
    /\ collected[1].Job.ID = 3 /\ collected[5].Job.ID = 1

\* the jobs the coordinator has sent on jobs so far
SubmittedJobs ==
    IF cfPc = "pool.go" THEN {}
    ELSE IF cfPc = "pool.submit" THEN 1 .. (cfI - 1)
    ELSE 1 .. 5

IdsOfJobs(q) == {q[k].ID : k \in DOMAIN q}

IdsOfResults(q) == {q[k].Job.ID : k \in DOMAIN q}

AllPoolWorkersDone == \A w \in 1 .. 3 : poolPc[w] = "done"

\* C11: a submitted job is either still in the jobs channel or has been
\* received exactly once; no job is held by two workers; when all workers
\* have returned every job has been received exactly once.
C11_EachJobToOneWorker ==
    /\ \A j \in 1 .. 5 :
          /\ recvCount[j] <= 1
          /\ Cardinality({w \in 1 .. 3 :
                            poolPc[w] = "send" /\ poolJob[w].ID = j}) <= 1
          /\ j \in SubmittedJobs =>
                (recvCount[j] = 1) = (j \notin IdsOfJobs(jobs.buf))
          /\ j \notin SubmittedJobs => recvCount[j] = 0
    /\ AllPoolWorkersDone => \A j \in 1 .. 5 : recvCount[j] = 1

C11_Witness ==
    /\ prog = "pool" /\ AllPoolWorkersDone /\ cfPc = "pool.done"
    /\ \A j \in 1 .. 5 : recvCount[j] = 1

\* C12: once jobs is closed every worker returns; a worker returns only
\* when jobs is closed and drained, every submitted job received.
C12_PoolWorkersTerminate ==
    /\ [](\A w \in 1 .. 3 :
            poolPc[w] = "done" =>
                /\ jobs.closed /\ jobs.buf = <<>>
                /\ \A j \in 1 .. 5 : recvCount[j] = 1)
    /\ (prog = "pool" /\ jobs.closed) ~> AllPoolWorkersDone

C12_Witness ==
    /\ prog = "pool" /\ AllPoolWorkersDone /\ cfPc = "pool.collect"
    /\ jobsCloses = 1

\* jobs received by a worker whose Result has not been sent yet
JobsInProcess ==
    {j \in 1 .. 5 :
        /\ recvCount[j] >= 1
        /\ j \notin IdsOfResults(results.buf)
        /\ j \notin IdsOfResults(collected)}

\* C13: at no moment are more than 3 of the 5 jobs being processed.
C13_BoundedParallelism == Cardinality(JobsInProcess) <= 3

C13_Witness ==
    /\ prog = "pool" /\ Cardinality(JobsInProcess) = 3
    /\ Len(jobs.buf) = 2 /\ jobs.closed

\* C14: a failure while a worker processes one job leaves the process
\* running: the failed job's Result is delivered carrying the failure, and
\* the other jobs can still be processed.
C14_FailureCapturedInResult ==
    \A w \in 1 .. 3 :
        poolPc[w] = "failed" =>
            /\ Alive
            /\ poolJob[w].ID \in
                   IdsOfResults(results.buf) \cup IdsOfResults(collected)

(* ------------------ claims: inline fan-out / fan-in ------------------- *)
\* C4: when the 4-iteration merge loop of section 9 has ended, the four
\* values it received are the squares 1, 4, 9, 16, each exactly once.
C4_MergeLoopGetsSquares ==
    (prog = "demo" /\ cfPc = "demo.done") =>
        /\ Len(merged) = 4
        /\ \A v \in {1, 4, 9, 16} :
              Cardinality({k \in DOMAIN merged : merged[k] = v}) = 1

\* C24: both worker goroutines of section 9 eventually finish: every send
\* on ch1 / ch2 completes, the channel is closed and the goroutine ends.
C24_DemoWorkersFinish ==
    <>(\A k \in 1 .. 2 : demoPc[k] = "done" /\ ch12[k].closed)

====
